---- MODULE Spec2Model ----
(***************************************************************************)
(* FIS Situational Awareness: change detection engine                      *)
(* (src/change_detector.py), alert manager (src/alert_manager.py), the     *)
(* detect_changes and process_alerts activities (src/activities.py), the   *)
(* ingestion workflow (src/workflows.py), the retry loop of the ingestion  *)
(* agents (src/agents/base.py), the external agent                         *)
(* (src/agents/external_agent.py) and the weekly digest                    *)
(* (src/digest_generator.py).                                              *)
(*                                                                         *)
(* Specifications: SpecDetect and SpecMalformed (one call of               *)
(* detect_changes, then a second one), Spec (one call of                   *)
(* AlertManager.process_changes), SpecLater (that call and the same call   *)
(* some hours later), SpecPasses (passes of process_alerts over the shared *)
(* tables), SpecWorkflow (runs of IngestionWorkflow), SpecMcp (one call of *)
(* call_mcp_tool), SpecExternal (normalize, then detection, on the items   *)
(* of one fetch), SpecDigest (the section generators of the digest).       *)
(*                                                                         *)
(* Python values are modelled as follows.                                  *)
(*   dict            a function whose domain is a set of field names       *)
(*   Optional[dict]  None, or Some(d)                                      *)
(*   None as a field value / Optional[str]      the string NoneVal         *)
(*   list            a sequence                                            *)
(*   dict iteration  insertion order for the entity maps (a sequence of    *)
(*                   entities with distinct keys); the order FieldOrder    *)
(*                   for the fields of one data dict                       *)
(***************************************************************************)
EXTENDS Integers, Sequences, FiniteSets, TLC

VARIABLES
    current_entities,   \* detect_changes: argument current_entities
    previous_entities,  \* detect_changes: argument previous_entities
    changes,            \* detect_changes: the returned list
    detect_pc,          \* "start" before the call, "done" after it returned,
                        \* "raised" after it raised, "again" after a second call
    changes_again,      \* detect_changes: the list a second call returned
    am_changes,         \* process_changes: argument changes
    alert_history,      \* process_changes: argument alert_history
    significance_threshold, \* AlertManager.significance_threshold
    am_index,           \* process_changes: position of the for loop
    alerts_sent,        \* process_changes: the local list alerts_sent
    slack_messages,     \* change_ids of the messages the Slack channel received
    send_failed,        \* change_ids whose _send_alert raised
    am_pc,              \* "loop", "returned" or "raised"
    am_elapsed,         \* hours between the first call of process_changes
                        \* and the call under way
    db_changes,         \* table detected_changes, committed rows by id
    db_alert_history,   \* table alert_history, committed rows
    slack_posts,        \* per change id, the messages the channel received
    dispatch_failed,    \* change ids whose dispatch failed in some pass
    pa_pc,              \* process_alerts, per execution: position
    pa_attempt,         \* per execution: number of the Temporal attempt
    pa_critical,        \* per execution: local critical_changes (ids)
    pa_history,         \* per execution: local alert_history_dicts
    pa_index,           \* per execution: position of process_changes' loop
    pa_alerts_sent,     \* per execution: alerts_sent of process_changes (ids)
    pa_attempted,       \* per execution: ids whose dispatch this pass tried
    pa_passes,          \* number of passes started so far, by any execution
    ingestion_runs,     \* table ingestion_runs, committed rows in insertion order
    wf_cycle,           \* number of the IngestionWorkflow run, one per cycle
    wf_step,            \* IngestionWorkflow.run: position in WorkflowSteps
    wf_pc,              \* "idle", "scheduled", "running", "completed", "failed"
    wf_attempt,         \* attempt number of the activity being executed
    wf_started,         \* activities of this run that have started
    wf_completed,       \* activities of this run that have returned
    wf_exhausted,       \* ingestion activities of this run that raised on
                        \* every attempt
    wf_failures,        \* attempts that failed so far, in all runs
    da_current_runs,    \* detect_changes activity: runs whose snapshots it
                        \* read as current
    da_previous_runs,   \* the same, as previous
    mcp_max_retries,    \* call_mcp_tool: argument max_retries
    mcp_attempt,        \* call_mcp_tool: the loop variable attempt
    mcp_calls,          \* the outcomes of the calls of the tool, in order
    mcp_slept,          \* the seconds call_mcp_tool slept, one entry per sleep
    mcp_result,         \* what call_mcp_tool returned or raised
    mcp_pc,             \* "call", "sleep", "returned" or "raised"
    ext_raw_data,       \* ExternalIngestionAgent.normalize: argument raw_data
    ext_entities,       \* the list normalize returned
    ext_changes,        \* detect_changes on these entities, none stored before
    ext_pc,             \* "fetched", "normalized" or "detected"
    dg_changes,         \* DigestGenerator: the changes of the week
    dg_events,          \* DigestGenerator: the external events of the week
    dg_sections,        \* the sections of the digest, by name
    dg_pc               \* "start" or "generated"

detect_vars == <<current_entities, previous_entities, changes, detect_pc,
                 changes_again>>

am_vars == <<am_changes, alert_history, significance_threshold, am_index,
             alerts_sent, slack_messages, send_failed, am_pc, am_elapsed>>

pa_vars == <<db_changes, db_alert_history, slack_posts, dispatch_failed,
             pa_pc, pa_attempt, pa_critical, pa_history, pa_index,
             pa_alerts_sent, pa_attempted, pa_passes>>

wf_vars == <<ingestion_runs, wf_cycle, wf_step, wf_pc, wf_attempt, wf_started,
             wf_completed, wf_exhausted, wf_failures, da_current_runs,
             da_previous_runs>>

act_vars == <<pa_vars, wf_vars>>

mcp_vars == <<mcp_max_retries, mcp_attempt, mcp_calls, mcp_slept, mcp_result,
              mcp_pc>>

ext_vars == <<ext_raw_data, ext_entities, ext_changes, ext_pc>>

dg_vars == <<dg_changes, dg_events, dg_sections, dg_pc>>

side_vars == <<mcp_vars, ext_vars, dg_vars>>

vars == <<current_entities, previous_entities, changes, detect_pc,
          changes_again,
          am_changes, alert_history, significance_threshold, am_index,
          alerts_sent, slack_messages, send_failed, am_pc, am_elapsed,
          db_changes, db_alert_history, slack_posts, dispatch_failed,
          pa_pc, pa_attempt, pa_critical, pa_history, pa_index,
          pa_alerts_sent, pa_attempted, pa_passes,
          ingestion_runs, wf_cycle, wf_step, wf_pc, wf_attempt, wf_started,
          wf_completed, wf_exhausted, wf_failures, da_current_runs,
          da_previous_runs,
          mcp_max_retries, mcp_attempt, mcp_calls, mcp_slept, mcp_result,
          mcp_pc,
          ext_raw_data, ext_entities, ext_changes, ext_pc,
          dg_changes, dg_events, dg_sections, dg_pc>>

----------------------------------------------------------------------------
(* Python helpers *)

NoneVal == "<None>"

None == [tag |-> "None"]

Some(d) == [tag |-> "Some", value |-> d]

EmptyDict == <<>>

\* d.get(f, default)
Get(d, f, default) == IF f \in DOMAIN d THEN d[f] ELSE default

\* truthiness of an Optional[dict]: None and {} are falsy
Truthy(opt) == opt # None /\ DOMAIN opt.value # {}

\* (a or {})
OrEmpty(a) == IF Truthy(a) THEN a.value ELSE EmptyDict

\* (a or b or {})
OrOrEmpty(a, b) == IF Truthy(a) THEN a.value ELSE OrEmpty(b)

RECURSIVE Flatten(_)
Flatten(ss) == IF ss = <<>> THEN <<>> ELSE Head(ss) \o Flatten(Tail(ss))

----------------------------------------------------------------------------
(* Entities *)

Entity(t, id, d) == [entity_type |-> t, entity_id |-> id, data |-> d]

Key(e) == <<e.entity_type, e.entity_id>>

\* the order in which the fields of a data dict are visited
FieldOrder == <<"name", "role", "email", "status", "severity", "event_type",
                "title", "milestone", "decision", "note",
                "last_seen", "last_updated", "source">>

\* change_detector.py:123, the fields left out of the comparison
VolatileFields == {"last_seen", "last_updated", "source"}

----------------------------------------------------------------------------
(* ChangeDetector._build_entity_map: a dict keyed by (entity_type,        *)
(* entity_id); a later entity with the same key replaces the value and     *)
(* keeps the position of the first insertion.                              *)

RECURSIVE PutEntity(_, _)
PutEntity(entity_map, entity) ==
    IF entity_map = <<>> THEN <<entity>>
    ELSE IF Key(Head(entity_map)) = Key(entity)
         THEN <<entity>> \o Tail(entity_map)
         ELSE <<Head(entity_map)>> \o PutEntity(Tail(entity_map), entity)

RECURSIVE BuildFrom(_, _)
BuildFrom(entity_map, entities) ==
    IF entities = <<>> THEN entity_map
    ELSE BuildFrom(PutEntity(entity_map, Head(entities)), Tail(entities))

_build_entity_map(entities) == BuildFrom(<<>>, entities)

\* entity_key in entity_map
InMap(entity_map, k) == \E i \in 1..Len(entity_map) : Key(entity_map[i]) = k

\* entity_map[entity_key]
Lookup(entity_map, k) ==
    entity_map[CHOOSE i \in 1..Len(entity_map) : Key(entity_map[i]) = k]

----------------------------------------------------------------------------
(* ChangeDetector._detect_field_changes: a sequence of                     *)
(* <<field_name, prev_value, new_value>>, one per changed field            *)

\* faulty variant: the volatile fields are compared like any other
FieldChanged_NoVolatile(previous, current, f) ==
    /\ f \in DOMAIN current
    /\ Get(previous, f, NoneVal) # current[f]

FieldChanged(previous, current, f) ==
    /\ f \in DOMAIN current
    /\ Get(previous, f, NoneVal) # current[f]
    /\ f \notin VolatileFields

_detect_field_changes(previous, current) ==
    LET names == SelectSeq(FieldOrder,
                           LAMBDA f : FieldChanged(previous, current, f))
    IN  [i \in 1..Len(names) |->
            <<names[i], Get(previous, names[i], NoneVal), current[names[i]]>>]

----------------------------------------------------------------------------
(* ChangeDetector._calculate_significance *)

\* entity_scores.get(entity_type, 10)
BaseScore(entity_type) ==
    CASE entity_type = "stakeholder"    -> 30
      [] entity_type = "program"        -> 25
      [] entity_type = "risk"           -> 35
      [] entity_type = "timeline"       -> 20
      [] entity_type = "governance"     -> 25
      [] entity_type = "external_event" -> 40
      [] OTHER                          -> 10

\* faulty variant: the modifiers of 'added' and 'removed' exchanged
ChangeTypeModifier_Swapped(change_type) ==
    CASE change_type = "added"    -> 20
      [] change_type = "removed"  -> 15
      [] change_type = "modified" -> 10
      [] OTHER                    -> 0

ChangeTypeModifier(change_type) ==
    CASE change_type = "added"    -> 15
      [] change_type = "removed"  -> 20
      [] change_type = "modified" -> 10
      [] OTHER                    -> 0

StakeholderModifier(previous_value, new_value) ==
    LET role == Get(OrOrEmpty(new_value, previous_value), "role", "")
    IN  IF role \in {"CEO", "CFO", "CTO"} THEN 40
        ELSE IF role \in {"Board Chairman", "Board Member"} THEN 35
        ELSE IF role \in {"Executive Sponsor", "AI Program Lead"} THEN 20
        ELSE 0

\* faulty variant: a degraded status is scored whichever field changed
ProgramModifier_AnyField(new_value, field_changed) ==
    IF Get(OrEmpty(new_value), "status", "") \in {"Blocked", "At Risk"}
    THEN 30 ELSE 0

ProgramModifier(new_value, field_changed) ==
    IF /\ field_changed = "status"
       /\ Get(OrEmpty(new_value), "status", "") \in {"Blocked", "At Risk"}
    THEN 30 ELSE 0

RiskModifier(new_value) ==
    LET severity == Get(OrEmpty(new_value), "severity", "")
    IN  IF severity = "Critical" THEN 40
        ELSE IF severity = "High" THEN 25
        ELSE 0

ExternalEventModifier(new_value) ==
    LET event_type == Get(OrEmpty(new_value), "event_type", "")
    IN  IF event_type \in {"M&A", "Executive Change"} THEN 40
        ELSE IF event_type \in {"SEC Filing (8-K)", "Regulatory Action"} THEN 35
        ELSE IF event_type \in {"SEC Filing (10-K)", "SEC Filing (10-Q)"} THEN 15
        ELSE 0

EntityModifier(entity_type, previous_value, new_value, field_changed) ==
      (IF entity_type = "stakeholder"
       THEN StakeholderModifier(previous_value, new_value) ELSE 0)
    + (IF entity_type = "program"
       THEN ProgramModifier(new_value, field_changed) ELSE 0)
    + (IF entity_type = "risk" THEN RiskModifier(new_value) ELSE 0)
    + (IF entity_type = "external_event"
       THEN ExternalEventModifier(new_value) ELSE 0)

\* min(score, 100)
Cap(score) == IF score < 100 THEN score ELSE 100

\* faulty variant: strict comparisons at the bucket boundaries
Categorize_Strict(score) ==
    IF score > 75 THEN "CRITICAL"
    ELSE IF score > 60 THEN "HIGH"
    ELSE IF score > 40 THEN "MEDIUM"
    ELSE "LOW"

Categorize(score) ==
    IF score >= 75 THEN "CRITICAL"
    ELSE IF score >= 60 THEN "HIGH"
    ELSE IF score >= 40 THEN "MEDIUM"
    ELSE "LOW"

\* returns <<score, level>>
_calculate_significance(entity_type, change_type, previous_value, new_value, field_changed) ==
    LET score == Cap(BaseScore(entity_type) + ChangeTypeModifier(change_type)
                     + EntityModifier(entity_type, previous_value, new_value,
                                      field_changed))
    IN  <<score, Categorize(score)>>

----------------------------------------------------------------------------
(* ChangeDetector._generate_rationale: the template chosen and the values  *)
(* it interpolates                                                         *)

_generate_rationale(entity_type, change_type, previous_value, new_value, field_changed) ==
    LET either == OrOrEmpty(new_value, previous_value)
        new    == OrEmpty(new_value)
        prev   == OrEmpty(previous_value)
        default == <<"material change", entity_type>>
    IN  CASE entity_type = "stakeholder" ->
               LET role == Get(either, "role", "Unknown")
                   name == Get(either, "name", "Unknown")
               IN  IF change_type = "added"
                   THEN <<"stakeholder added", role, name>>
                   ELSE IF change_type = "removed"
                   THEN <<"stakeholder removed", role, name>>
                   ELSE IF change_type = "modified" /\ field_changed = "role"
                   THEN <<"stakeholder role changed", name,
                          Get(prev, "role", "Unknown"), role>>
                   ELSE default
          [] entity_type = "program" ->
               IF change_type = "modified" /\ field_changed = "status"
               THEN <<"program status changed", Get(either, "name", "Unknown"),
                      Get(prev, "status", "Unknown"),
                      Get(new, "status", "Unknown")>>
               ELSE default
          [] entity_type = "risk" ->
               IF change_type = "added"
               THEN <<"risk added", Get(either, "severity", "Unknown")>>
               ELSE IF change_type = "modified" /\ field_changed = "severity"
               THEN <<"risk severity changed", Get(new, "severity", NoneVal)>>
               ELSE default
          [] entity_type = "external_event" ->
               <<"external event", Get(new, "event_type", "Unknown"),
                 Get(new, "title", "Unknown")>>
          [] entity_type = "timeline" ->
               IF change_type = "modified" /\ field_changed = "status"
               THEN <<"timeline status changed",
                      Get(either, "milestone", "Unknown"),
                      Get(new, "status", "Unknown")>>
               ELSE default
          [] OTHER -> default

----------------------------------------------------------------------------
(* ChangeDetector._create_change_record.  change_id (uuid4) and            *)
(* change_timestamp (now) are filled in by detect_changes below, from the  *)
(* position of the record in the result.                                   *)

_create_change_record(entity_type, entity_id, change_type, previous_value, new_value, field_changed) ==
    LET sig == _calculate_significance(entity_type, change_type,
                                       previous_value, new_value, field_changed)
    IN  [change_id          |-> 0,
         entity_type        |-> entity_type,
         entity_id          |-> entity_id,
         change_type        |-> change_type,
         previous_value     |-> previous_value,
         new_value          |-> new_value,
         field_changed      |-> field_changed,
         significance_score |-> sig[1],
         significance_level |-> sig[2],
         rationale          |-> _generate_rationale(entity_type, change_type,
                                    previous_value, new_value, field_changed)]

----------------------------------------------------------------------------
(* ChangeDetector.detect_changes *)

\* faulty variant: the two payloads of an 'added' record exchanged
DetectAdditions_Swapped(current_map, previous_map) ==
    LET sel == SelectSeq(current_map,
                         LAMBDA e : ~InMap(previous_map, Key(e)))
    IN  [i \in 1..Len(sel) |->
            _create_change_record(sel[i].entity_type, sel[i].entity_id,
                                  "added", Some(sel[i].data), None, NoneVal)]

\* change_detector.py:50-60
DetectAdditions(current_map, previous_map) ==
    LET sel == SelectSeq(current_map,
                         LAMBDA e : ~InMap(previous_map, Key(e)))
    IN  [i \in 1..Len(sel) |->
            _create_change_record(sel[i].entity_type, sel[i].entity_id,
                                  "added", None, Some(sel[i].data), NoneVal)]

\* faulty variant: the removals loop runs over current_map instead of previous_map
DetectRemovals_WrongMap(current_map, previous_map) ==
    LET sel == SelectSeq(current_map,
                         LAMBDA e : ~InMap(current_map, Key(e)))
    IN  [i \in 1..Len(sel) |->
            _create_change_record(sel[i].entity_type, sel[i].entity_id,
                                  "removed", Some(sel[i].data), None, NoneVal)]

\* change_detector.py:62-72
DetectRemovals(current_map, previous_map) ==
    LET sel == SelectSeq(previous_map,
                         LAMBDA e : ~InMap(current_map, Key(e)))
    IN  [i \in 1..Len(sel) |->
            _create_change_record(sel[i].entity_type, sel[i].entity_id,
                                  "removed", Some(sel[i].data), None, NoneVal)]

\* faulty variant: the payloads of a 'modified' record are the whole data dicts
ModifiedRecords_WholeData(current_entity, previous_entity) ==
    LET fc == _detect_field_changes(previous_entity.data, current_entity.data)
    IN  [i \in 1..Len(fc) |->
            _create_change_record(current_entity.entity_type,
                                  current_entity.entity_id, "modified",
                                  Some(previous_entity.data),
                                  Some(current_entity.data),
                                  fc[i][1])]

\* change_detector.py:85-94, the records of one entity present on both sides
ModifiedRecords(current_entity, previous_entity) ==
    LET fc == _detect_field_changes(previous_entity.data, current_entity.data)
    IN  [i \in 1..Len(fc) |->
            _create_change_record(current_entity.entity_type,
                                  current_entity.entity_id, "modified",
                                  Some(fc[i][1] :> fc[i][2]),
                                  Some(fc[i][1] :> fc[i][3]),
                                  fc[i][1])]

\* change_detector.py:74-94
DetectModifications(current_map, previous_map) ==
    LET sel == SelectSeq(current_map,
                         LAMBDA e : InMap(previous_map, Key(e)))
    IN  Flatten([i \in 1..Len(sel) |->
                    ModifiedRecords(sel[i], Lookup(previous_map, Key(sel[i])))])

detect_changes(current, previous) ==
    LET current_map  == _build_entity_map(current)
        previous_map == _build_entity_map(previous)
        records == DetectAdditions(current_map, previous_map)
                   \o DetectRemovals(current_map, previous_map)
                   \o DetectModifications(current_map, previous_map)
    IN  [i \in 1..Len(records) |-> [records[i] EXCEPT !.change_id = i]]

\* change_detector.py:103, entity["entity_type"] or entity["entity_id"] raises
\* KeyError for an entity without that key
BuildRaises(entities) ==
    \E i \in 1..Len(entities) :
        ~({"entity_type", "entity_id"} \subseteq DOMAIN entities[i])

\* change_detector.py:56,67,80,81, entity["data"] raises KeyError; every
\* entity of a map is read by exactly one of the three loops
DataRaises(entity_map) ==
    \E i \in 1..Len(entity_map) : "data" \notin DOMAIN entity_map[i]

\* whether the call detect_changes(current, previous) raises
detect_changes_raises(current, previous) ==
    \/ BuildRaises(current)
    \/ BuildRaises(previous)
    \/ DataRaises(_build_entity_map(current))
    \/ DataRaises(_build_entity_map(previous))

----------------------------------------------------------------------------
(* AlertManager (src/alert_manager.py).                                    *)
(*                                                                         *)
(* A change handed to process_changes carries change_id, the triple        *)
(* (entity_type, entity_id, change_type), significance_score and           *)
(* significance_level.  An alert_history entry carries change_id, the      *)
(* triple and alert_timestamp.  A timestamp is None or a datetime          *)
(* [hour, aware]: hour counts from the time of the pass (datetime.now()    *)
(* is hour 0, earlier times are negative) and aware tells whether the      *)
(* datetime carries a time zone, as the values of the                      *)
(* DateTime(timezone=True) column AlertHistory.alert_timestamp do.         *)

\* config.py: AlertingSettings.significance_threshold, default
DefaultThreshold == 75

\* config.py: AlertingSettings.dedup_window_hours, default
DedupWindowHours == 24

Datetime(h, a) == [tag |-> "Some", hour |-> h, aware |-> a]

\* datetime.now() - timedelta(hours=self.dedup_window_hours): a naive datetime
cutoff_time == Datetime(0 - DedupWindowHours, FALSE)

\* faulty variant: the threshold itself is treated as below the threshold
BelowThreshold_Inclusive(change, threshold) ==
    change.significance_score <= threshold

\* alert_manager.py:53
BelowThreshold(change, threshold) == change.significance_score < threshold

\* faulty variant: the exact-duplicate loop never matches
IdInHistory_Never(change, history) == FALSE

\* alert_manager.py:92-94
IdInHistory(change, history) ==
    \E i \in 1..Len(history) : history[i].change_id = change.change_id

\* alert_manager.py:103-105
SameTriple(alert, change) ==
    /\ alert.entity_type = change.entity_type
    /\ alert.entity_id = change.entity_id
    /\ alert.change_type = change.change_type

\* alert_manager.py:99-106, the second loop from entry i on: "dup" when it
\* returns True, "new" when it runs to the end, "TypeError" when
\* alert_time > cutoff_time compares an aware datetime with the naive cutoff
RECURSIVE WindowScan(_, _, _)
WindowScan(change, history, i) ==
    IF i > Len(history) THEN "new"
    ELSE LET alert_time == history[i].alert_timestamp
         IN  IF alert_time = None
             THEN WindowScan(change, history, i + 1)
             ELSE IF alert_time.aware # cutoff_time.aware
             THEN "TypeError"
             ELSE IF alert_time.hour > cutoff_time.hour
                     /\ SameTriple(history[i], change)
             THEN "dup"
             ELSE WindowScan(change, history, i + 1)

\* AlertManager._is_duplicate
_is_duplicate(change, history) ==
    IF IdInHistory(change, history) THEN "dup"
    ELSE WindowScan(change, history, 1)

\* AlertManager._format_alert: the fields of the AlertMessage that identify
\* the change and its significance
_format_alert(change) ==
    [change_id |-> change.change_id,
     level     |-> change.significance_level,
     score     |-> change.significance_score]

----------------------------------------------------------------------------
(* The inputs of detect_changes.  Lists of up to MaxEntities entities are  *)
(* drawn from KeyedEntities (several keys, several versions of one key,    *)
(* so that duplicate keys and several records per call occur); lists of at *)
(* most one entity are drawn from FieldEntities, which varies the data of  *)
(* every entity type field by field.                                       *)

MaxEntities == 2

StakeholderData ==
    {[name |-> "A", role |-> r] :
        r \in {"Intern", "Engineer", "CEO", "CFO", "CTO", "Board Chairman",
               "Board Member", "Executive Sponsor", "AI Program Lead"}}
    \cup {[name |-> "A"],
          [name |-> "B", role |-> "CEO"],
          [name |-> "B", role |-> "Engineer"],
          [name |-> "A", role |-> "Intern", last_seen |-> "t1"],
          [name |-> "A", role |-> "Intern", last_seen |-> "t2"],
          [name |-> "A", role |-> "Intern", email |-> NoneVal],
          EmptyDict}

ProgramData ==
    {[name |-> "P", status |-> st] : st \in {"In Progress", "Blocked", "At Risk"}}
    \cup {[name |-> "P"], [name |-> "Q", status |-> "Blocked"]}

RiskData ==
    {[severity |-> sv, status |-> "Open"] : sv \in {"Critical", "High", "Medium"}}
    \cup {[status |-> "Open"], [severity |-> "Critical", status |-> "Mitigated"]}

TimelineData ==
    {[milestone |-> "M", status |-> st] : st \in {"On Track", "Delayed"}}

GovernanceData == {[decision |-> d] : d \in {"D1", "D2"}}

ExternalEventData ==
    {[event_type |-> et, title |-> "T"] :
        et \in {"News", "M&A", "Executive Change", "SEC Filing (8-K)",
                "Regulatory Action", "SEC Filing (10-K)", "SEC Filing (10-Q)"}}
    \cup {[title |-> "T"],
          [event_type |-> "News", title |-> "T", source |-> "u1"],
          [event_type |-> "News", title |-> "T", source |-> "u2"]}

WidgetData == {[note |-> n] : n \in {"x", "y"}}

FieldEntities ==
    {Entity("stakeholder", "a@x.com", d) : d \in StakeholderData}
    \cup {Entity("program", "p1", d) : d \in ProgramData}
    \cup {Entity("risk", "r1", d) : d \in RiskData}
    \cup {Entity("timeline", "m1", d) : d \in TimelineData}
    \cup {Entity("governance", "g1", d) : d \in GovernanceData}
    \cup {Entity("external_event", "x1", d) : d \in ExternalEventData}
    \cup {Entity("widget", "w1", d) : d \in WidgetData}

KeyedEntities ==
    {Entity("stakeholder", "a@x.com", [name |-> "A", role |-> "Intern"]),
     Entity("stakeholder", "a@x.com", [name |-> "A", role |-> "CEO"]),
     Entity("stakeholder", "b@x.com", [name |-> "B", role |-> "Engineer"]),
     Entity("risk", "r1", [severity |-> "High", status |-> "Open"]),
     Entity("risk", "r1", [severity |-> "Critical", status |-> "Open"])}

ListsUpTo(S, n) == UNION {[1..k -> S] : k \in 0..n}

DetectInputs ==
    (ListsUpTo(KeyedEntities, MaxEntities) \X ListsUpTo(KeyedEntities, MaxEntities))
    \cup (ListsUpTo(FieldEntities, 1) \X ListsUpTo(FieldEntities, 1))

----------------------------------------------------------------------------
(* The call detect_changes(current_entities, previous_entities) *)

\* two executions of the process_alerts activity share the database
Executions == {1, 2}

PassIdle ==
    /\ db_changes = <<>>
    /\ db_alert_history = <<>>
    /\ slack_posts = <<>>
    /\ dispatch_failed = {}
    /\ pa_pc = [p \in Executions |-> "idle"]
    /\ pa_attempt = [p \in Executions |-> 0]
    /\ pa_critical = [p \in Executions |-> <<>>]
    /\ pa_history = [p \in Executions |-> <<>>]
    /\ pa_index = [p \in Executions |-> 1]
    /\ pa_alerts_sent = [p \in Executions |-> <<>>]
    /\ pa_attempted = [p \in Executions |-> {}]
    /\ pa_passes = 0

WorkflowIdle ==
    /\ ingestion_runs = <<>>
    /\ wf_cycle = 0
    /\ wf_step = 1
    /\ wf_pc = "idle"
    /\ wf_attempt = 1
    /\ wf_started = {}
    /\ wf_completed = {}
    /\ wf_exhausted = {}
    /\ wf_failures = 0
    /\ da_current_runs = {}
    /\ da_previous_runs = {}

ActIdle == PassIdle /\ WorkflowIdle

McpIdle ==
    /\ mcp_max_retries = 0
    /\ mcp_attempt = 0
    /\ mcp_calls = <<>>
    /\ mcp_slept = <<>>
    /\ mcp_result = None
    /\ mcp_pc = "idle"

ExternalIdle ==
    /\ ext_raw_data = <<>>
    /\ ext_entities = <<>>
    /\ ext_changes = <<>>
    /\ ext_pc = "idle"

DigestIdle ==
    /\ dg_changes = <<>>
    /\ dg_events = <<>>
    /\ dg_sections = None
    /\ dg_pc = "idle"

SideIdle == McpIdle /\ ExternalIdle /\ DigestIdle

AlertIdle ==
    /\ am_changes = <<>>
    /\ alert_history = <<>>
    /\ significance_threshold = DefaultThreshold
    /\ am_index = 1
    /\ alerts_sent = <<>>
    /\ slack_messages = <<>>
    /\ send_failed = {}
    /\ am_pc = "idle"
    /\ am_elapsed = 0

InitDetect ==
    /\ \E inp \in DetectInputs :
          /\ current_entities = inp[1]
          /\ previous_entities = inp[2]
    /\ changes = <<>>
    /\ changes_again = <<>>
    /\ detect_pc = "start"
    /\ AlertIdle
    /\ ActIdle
    /\ SideIdle

\* faulty variant: the call empties the list it was given as current_entities
DetectChanges_ConsumesInput ==
    /\ detect_pc = "start"
    /\ changes' = detect_changes(current_entities, previous_entities)
    /\ detect_pc' = "done"
    /\ current_entities' = <<>>
    /\ UNCHANGED <<previous_entities, changes_again>>
    /\ UNCHANGED <<am_vars, act_vars, side_vars>>

\* a first call; a KeyError of a subscript leaves the call without a result
DetectChanges ==
    /\ detect_pc = "start"
    /\ IF detect_changes_raises(current_entities, previous_entities)
       THEN /\ detect_pc' = "raised"
            /\ UNCHANGED changes
       ELSE /\ changes' = detect_changes(current_entities, previous_entities)
            /\ detect_pc' = "done"
    /\ UNCHANGED <<current_entities, previous_entities, changes_again>>
    /\ UNCHANGED <<am_vars, act_vars, side_vars>>

\* a second call with the same two lists; uuid4() gives it fresh change_ids
DetectChangesAgain ==
    /\ detect_pc = "done"
    /\ changes_again' =
          LET second == detect_changes(current_entities, previous_entities)
          IN  [i \in 1..Len(second) |->
                  [second[i] EXCEPT !.change_id = Len(changes) + i]]
    /\ detect_pc' = "again"
    /\ UNCHANGED <<current_entities, previous_entities, changes>>
    /\ UNCHANGED <<am_vars, act_vars, side_vars>>

NextDetect == DetectChanges \/ DetectChangesAgain

SpecDetect == InitDetect /\ [][NextDetect]_vars

----------------------------------------------------------------------------
(* Vocabulary of the properties of detect_changes *)

KeysOf(entities) == {Key(entities[i]) : i \in 1..Len(entities)}

\* the data of the entity that holds key k in the list (the last one listed)
DataOf(entities, k) ==
    LET last == CHOOSE i \in 1..Len(entities) :
                    /\ Key(entities[i]) = k
                    /\ \A j \in (i+1)..Len(entities) : Key(entities[j]) # k
    IN  entities[last].data

RecordsOf(k, change_type) ==
    {i \in 1..Len(changes) :
        /\ changes[i].entity_type = k[1]
        /\ changes[i].entity_id = k[2]
        /\ changes[i].change_type = change_type}

NonVolatile(d) == [f \in (DOMAIN d) \ VolatileFields |-> d[f]]

\* the non-volatile fields in which two data dicts differ: unequal values, or
\* present on one side only
DifferingFields(p, c) ==
    {f \in ((DOMAIN p) \cup (DOMAIN c)) \ VolatileFields :
        \/ f \notin DOMAIN p
        \/ f \notin DOMAIN c
        \/ p[f] # c[f]}

AddedKeys == KeysOf(current_entities) \ KeysOf(previous_entities)

RemovedKeys == KeysOf(previous_entities) \ KeysOf(current_entities)

CommonKeys == KeysOf(current_entities) \cap KeysOf(previous_entities)

\* C1: every key in current and not in previous has exactly one 'added'
\* record, with previous_value None and new_value the entity's data; with an
\* empty previous the result is one 'added' record per distinct key and
\* nothing else.
C1_AddedRecords ==
    detect_pc = "done" =>
        /\ \A k \in AddedKeys :
              /\ Cardinality(RecordsOf(k, "added")) = 1
              /\ \A i \in RecordsOf(k, "added") :
                    /\ changes[i].previous_value = None
                    /\ changes[i].new_value = Some(DataOf(current_entities, k))
        /\ previous_entities = <<>> =>
              /\ Len(changes) = Cardinality(KeysOf(current_entities))
              /\ \A i \in 1..Len(changes) : changes[i].change_type = "added"

C1_Witness ==
    /\ detect_pc = "done"
    /\ previous_entities = <<>>
    /\ Len(current_entities) = 2
    /\ Cardinality(KeysOf(current_entities)) = 2
    /\ Len(changes) = 2

\* C2: every key in previous and not in current has exactly one 'removed'
\* record, with new_value None and previous_value the prior entity's data.
C2_RemovedRecords ==
    detect_pc = "done" =>
        \A k \in RemovedKeys :
            /\ Cardinality(RecordsOf(k, "removed")) = 1
            /\ \A i \in RecordsOf(k, "removed") :
                  /\ changes[i].new_value = None
                  /\ changes[i].previous_value = Some(DataOf(previous_entities, k))

C2_Witness ==
    /\ detect_pc = "done"
    /\ Cardinality(RemovedKeys) = 2
    /\ current_entities # <<>>
    /\ \E i \in 1..Len(changes) : changes[i].change_type = "removed"

\* C3: a key on both sides whose data differ in exactly one non-volatile
\* field (unequal values, or present on one side only) has exactly one
\* 'modified' record, field_changed is that field and both payloads hold
\* only that field.
C3_OneModifiedRecord ==
    detect_pc = "done" =>
        \A k \in CommonKeys :
            LET diff == DifferingFields(DataOf(previous_entities, k),
                                        DataOf(current_entities, k))
            IN  Cardinality(diff) = 1 =>
                  /\ Cardinality(RecordsOf(k, "modified")) = 1
                  /\ \A i \in RecordsOf(k, "modified") :
                        /\ changes[i].field_changed \in diff
                        /\ changes[i].previous_value # None
                        /\ changes[i].new_value # None
                        /\ DOMAIN changes[i].previous_value.value = diff
                        /\ DOMAIN changes[i].new_value.value = diff

\* C4: with the same keys on both sides and, for every key, the same data
\* once the volatile fields are ignored, the result is empty.
C4_NoChangeNoRecord ==
    ( /\ detect_pc = "done"
      /\ KeysOf(current_entities) = KeysOf(previous_entities)
      /\ \A k \in CommonKeys :
            NonVolatile(DataOf(current_entities, k))
                = NonVolatile(DataOf(previous_entities, k)) )
    => changes = <<>>

C4_Witness ==
    /\ detect_pc = "done"
    /\ KeysOf(current_entities) = KeysOf(previous_entities)
    /\ \E k \in CommonKeys :
          /\ DataOf(current_entities, k) # DataOf(previous_entities, k)
          /\ NonVolatile(DataOf(current_entities, k))
                = NonVolatile(DataOf(previous_entities, k))
          /\ "last_seen" \in DOMAIN DataOf(previous_entities, k)
          /\ "last_seen" \in DOMAIN DataOf(current_entities, k)
    /\ changes = <<>>

----------------------------------------------------------------------------
(* Significance scores and levels of the records detect_changes returns *)

C5_BaseTable ==
    [stakeholder |-> 30, program |-> 25, risk |-> 35, timeline |-> 20,
     governance |-> 25, external_event |-> 40]

C5_Base(entity_type) ==
    IF entity_type \in DOMAIN C5_BaseTable THEN C5_BaseTable[entity_type] ELSE 10

C5_ChangeTable == [added |-> 15, removed |-> 20, modified |-> 10]

\* the entity-specific modifiers each entity type can receive
C5_Modifiers(entity_type) ==
    CASE entity_type = "stakeholder"    -> {0, 20, 35, 40}
      [] entity_type = "program"        -> {0, 30}
      [] entity_type = "risk"           -> {0, 25, 40}
      [] entity_type = "external_event" -> {0, 15, 35, 40}
      [] OTHER                          -> {0}

C5_Min(a, b) == IF a <= b THEN a ELSE b

\* C5: every record's score is min(100, base + change-type modifier +
\* entity-specific modifier), an integer in 0..100; a stakeholder whose role
\* is modified to Engineer scores 40, a stakeholder added as CEO scores 85.
C5_ScoreFormula ==
    \A i \in 1..Len(changes) :
        LET r == changes[i]
        IN  /\ r.significance_score \in 0..100
            /\ \E m \in C5_Modifiers(r.entity_type) :
                  r.significance_score =
                      C5_Min(100, C5_Base(r.entity_type)
                                  + C5_ChangeTable[r.change_type] + m)
            /\ ( /\ r.entity_type = "stakeholder"
                 /\ r.change_type = "modified"
                 /\ r.field_changed = "role"
                 /\ r.new_value = Some([role |-> "Engineer"]) )
               => r.significance_score = 40
            /\ ( /\ r.entity_type = "stakeholder"
                 /\ r.change_type = "added"
                 /\ Get(r.new_value.value, "role", "") = "CEO" )
               => r.significance_score = 85

C5_Witness ==
    /\ detect_pc = "done"
    /\ \E i \in 1..Len(changes) :
          /\ changes[i].entity_type = "stakeholder"
          /\ changes[i].change_type = "modified"
          /\ changes[i].new_value = Some([role |-> "Engineer"])
          /\ changes[i].previous_value = Some([role |-> "Intern"])
          /\ changes[i].significance_score = 40

\* C6: the level of every record is decided by its score alone: CRITICAL
\* iff score >= 75, HIGH iff 60..74, MEDIUM iff 40..59, LOW iff <= 39.
C6_LevelBuckets ==
    \A i \in 1..Len(changes) :
        LET r == changes[i]
        IN  /\ r.significance_level = "CRITICAL" <=> r.significance_score >= 75
            /\ r.significance_level = "HIGH" <=> r.significance_score \in 60..74
            /\ r.significance_level = "MEDIUM" <=> r.significance_score \in 40..59
            /\ r.significance_level = "LOW" <=> r.significance_score <= 39

C6_Witness ==
    /\ detect_pc = "done"
    /\ \E i \in 1..Len(changes) :
          /\ changes[i].significance_score = 75
          /\ changes[i].significance_level = "CRITICAL"

----------------------------------------------------------------------------
(* The inputs of AlertManager.process_changes *)

MaxChanges == 2

MaxHistory == 2

Thresholds == {DefaultThreshold, 90}

Triple(t, id, ct) == [entity_type |-> t, entity_id |-> id, change_type |-> ct]

ChangeTriples ==
    {Triple("stakeholder", "a@x.com", "added"),
     Triple("stakeholder", "a@x.com", "removed")}

ChangeScores == {70, 85, 90}

\* the changes of one batch have distinct change_ids: the position in the batch
ChangeLists ==
    UNION {[1..n -> ChangeTriples \X ChangeScores] : n \in 0..MaxChanges}

MakeChange(i, triple, score) ==
    [change_id          |-> i,
     entity_type        |-> triple.entity_type,
     entity_id          |-> triple.entity_id,
     change_type        |-> triple.change_type,
     significance_score |-> score,
     significance_level |-> Categorize(score)]

HistoryEntry(id, triple, ts) ==
    [change_id       |-> id,
     entity_type     |-> triple.entity_type,
     entity_id       |-> triple.entity_id,
     change_type     |-> triple.change_type,
     alert_timestamp |-> ts]

\* change_id 1 is the first change of the batch, 0 a change outside it
HistoryEntries ==
    LET same == Triple("stakeholder", "a@x.com", "added")
    IN  {HistoryEntry(1, same, Datetime(-25, FALSE)),
         HistoryEntry(0, same, Datetime(-1, FALSE)),
         HistoryEntry(0, same, Datetime(-24, FALSE)),
         HistoryEntry(0, same, Datetime(-25, FALSE)),
         HistoryEntry(0, same, None),
         HistoryEntry(0, same, Datetime(-1, TRUE)),
         HistoryEntry(0, Triple("risk", "a@x.com", "added"), Datetime(-1, FALSE)),
         HistoryEntry(0, Triple("stakeholder", "b@x.com", "added"), Datetime(-1, FALSE)),
         HistoryEntry(0, Triple("stakeholder", "a@x.com", "removed"), Datetime(-1, FALSE)),
         HistoryEntry(0, Triple("risk", "r1", "added"), Datetime(-25, TRUE))}

----------------------------------------------------------------------------
(* AlertManager.process_changes, one action per turn of its for loop *)

DetectIdle ==
    /\ current_entities = <<>>
    /\ previous_entities = <<>>
    /\ changes = <<>>
    /\ changes_again = <<>>
    /\ detect_pc = "idle"

InitAlert ==
    /\ DetectIdle
    /\ ActIdle
    /\ SideIdle
    /\ \E cl \in ChangeLists :
          am_changes = [i \in 1..Len(cl) |-> MakeChange(i, cl[i][1], cl[i][2])]
    /\ alert_history \in ListsUpTo(HistoryEntries, MaxHistory)
    /\ significance_threshold \in Thresholds
    /\ am_index = 1
    /\ alerts_sent = <<>>
    /\ slack_messages = <<>>
    /\ send_failed = {}
    /\ am_pc = "loop"
    /\ am_elapsed = 0

InLoop == am_pc = "loop" /\ am_index <= Len(am_changes)

\* alert_manager.py:53-58
SkipBelowThreshold ==
    /\ InLoop
    /\ BelowThreshold(am_changes[am_index], significance_threshold)
    /\ am_index' = am_index + 1
    /\ UNCHANGED <<am_changes, alert_history, significance_threshold,
                   alerts_sent, slack_messages, send_failed, am_pc>>
    /\ UNCHANGED <<am_elapsed, detect_vars, act_vars, side_vars>>

\* alert_manager.py:61-63
SkipDuplicate ==
    /\ InLoop
    /\ ~BelowThreshold(am_changes[am_index], significance_threshold)
    /\ _is_duplicate(am_changes[am_index], alert_history) = "dup"
    /\ am_index' = am_index + 1
    /\ UNCHANGED <<am_changes, alert_history, significance_threshold,
                   alerts_sent, slack_messages, send_failed, am_pc>>
    /\ UNCHANGED <<am_elapsed, detect_vars, act_vars, side_vars>>

\* alert_manager.py:61 is outside the try: the TypeError of _is_duplicate
\* leaves process_changes
DuplicateCheckRaises ==
    /\ InLoop
    /\ ~BelowThreshold(am_changes[am_index], significance_threshold)
    /\ _is_duplicate(am_changes[am_index], alert_history) = "TypeError"
    /\ am_pc' = "raised"
    /\ UNCHANGED <<am_changes, alert_history, significance_threshold, am_index,
                   alerts_sent, slack_messages, send_failed>>
    /\ UNCHANGED <<am_elapsed, detect_vars, act_vars, side_vars>>

\* alert_manager.py:66-70, _send_alert returns
SendAlertOk ==
    /\ InLoop
    /\ ~BelowThreshold(am_changes[am_index], significance_threshold)
    /\ _is_duplicate(am_changes[am_index], alert_history) = "new"
    /\ slack_messages' = Append(slack_messages, am_changes[am_index].change_id)
    /\ alerts_sent' = Append(alerts_sent, _format_alert(am_changes[am_index]))
    /\ am_index' = am_index + 1
    /\ UNCHANGED <<am_changes, alert_history, significance_threshold,
                   send_failed, am_pc>>
    /\ UNCHANGED <<am_elapsed, detect_vars, act_vars, side_vars>>

\* faulty variant: the exception of _send_alert is not caught
SendAlertFails_Abort ==
    /\ InLoop
    /\ ~BelowThreshold(am_changes[am_index], significance_threshold)
    /\ _is_duplicate(am_changes[am_index], alert_history) = "new"
    /\ send_failed' = send_failed \cup {am_changes[am_index].change_id}
    /\ am_pc' = "raised"
    /\ UNCHANGED <<am_changes, alert_history, significance_threshold, am_index,
                   alerts_sent, slack_messages>>
    /\ UNCHANGED <<am_elapsed, detect_vars, act_vars, side_vars>>

\* alert_manager.py:66-72, _send_alert raises: logged, the loop goes on
SendAlertFails ==
    /\ InLoop
    /\ ~BelowThreshold(am_changes[am_index], significance_threshold)
    /\ _is_duplicate(am_changes[am_index], alert_history) = "new"
    /\ send_failed' = send_failed \cup {am_changes[am_index].change_id}
    /\ am_index' = am_index + 1
    /\ UNCHANGED <<am_changes, alert_history, significance_threshold,
                   alerts_sent, slack_messages, am_pc>>
    /\ UNCHANGED <<am_elapsed, detect_vars, act_vars, side_vars>>

\* alert_manager.py:74
ReturnAlerts ==
    /\ am_pc = "loop"
    /\ am_index > Len(am_changes)
    /\ am_pc' = "returned"
    /\ UNCHANGED <<am_changes, alert_history, significance_threshold, am_index,
                   alerts_sent, slack_messages, send_failed>>
    /\ UNCHANGED <<am_elapsed, detect_vars, act_vars, side_vars>>

Next ==
    \/ SkipBelowThreshold
    \/ SkipDuplicate
    \/ DuplicateCheckRaises
    \/ SendAlertOk
    \/ SendAlertFails
    \/ ReturnAlerts

Init == InitAlert

Spec == Init /\ [][Next]_vars

----------------------------------------------------------------------------
(* Vocabulary of the properties of process_changes *)

\* the change_ids of the alerts that reached the channel
Dispatched == {slack_messages[i] : i \in 1..Len(slack_messages)}

Returned == {alerts_sent[k].change_id : k \in 1..Len(alerts_sent)}

ChangeWithId(id) ==
    am_changes[CHOOSE j \in 1..Len(am_changes) : am_changes[j].change_id = id]

\* the history holds an entry with the change_id of c
KnownChangeId(c) ==
    \E i \in 1..Len(alert_history) : alert_history[i].change_id = c.change_id

\* the history holds an entry for the triple of c whose alert_timestamp lies
\* within the last DedupWindowHours hours
RecentSameTriple(c) ==
    \E i \in 1..Len(alert_history) :
        LET h == alert_history[i]
        IN  /\ h.entity_type = c.entity_type
            /\ h.entity_id = c.entity_id
            /\ h.change_type = c.change_type
            /\ h.alert_timestamp # None
            /\ h.alert_timestamp.hour > 0 - DedupWindowHours

Eligible(c) ==
    /\ c.significance_score >= significance_threshold
    /\ ~KnownChangeId(c)
    /\ ~RecentSameTriple(c)

\* C7: an alert is dispatched only for a change with score >= threshold, and
\* every non-duplicate change with score >= threshold whose dispatch did not
\* fail is in the returned list; a change scored 85 is not alerted with
\* threshold 90.
C7_Threshold ==
    /\ \A id \in Dispatched :
          ChangeWithId(id).significance_score >= significance_threshold
    /\ am_pc = "returned" =>
          \A j \in 1..Len(am_changes) :
              ( /\ Eligible(am_changes[j])
                /\ am_changes[j].change_id \notin send_failed )
              => am_changes[j].change_id \in Returned
    /\ significance_threshold = 90 =>
          \A id \in Dispatched : ChangeWithId(id).significance_score # 85

C7_Witness ==
    /\ am_pc = "returned"
    /\ significance_threshold = 90
    /\ \E j \in 1..Len(am_changes) :
          /\ am_changes[j].significance_score = 85
          /\ am_changes[j].change_id \notin Dispatched
    /\ \E j \in 1..Len(am_changes) :
          /\ am_changes[j].significance_score = 90
          /\ am_changes[j].change_id \in Returned

\* C8: no alert is dispatched for a change whose change_id appears in
\* alert_history, whatever the age of that entry.
C8_KnownChangeIdNotDispatched ==
    \A id \in Dispatched : ~KnownChangeId(ChangeWithId(id))

C8_Witness ==
    /\ am_pc = "returned"
    /\ Len(am_changes) = 2
    /\ am_changes[1].significance_score >= significance_threshold
    /\ \E i \in 1..Len(alert_history) :
          /\ alert_history[i].change_id = am_changes[1].change_id
          /\ alert_history[i].alert_timestamp = Datetime(-25, FALSE)
    /\ am_changes[1].change_id \notin Dispatched
    /\ am_changes[2].change_id \in Dispatched

\* C9: no alert is dispatched for a change when the history holds an entry
\* for the same triple within the dedup window; an entry for the same triple
\* older than the window, or for another triple, does not suppress the
\* change: when the pass is over every change at or above the threshold with
\* no such entry (and no entry with its change_id) has had its dispatch
\* attempted.
C9_DedupWindow ==
    /\ \A id \in Dispatched : ~RecentSameTriple(ChangeWithId(id))
    /\ am_pc \in {"returned", "raised"} =>
          \A j \in 1..Len(am_changes) :
              Eligible(am_changes[j])
              => am_changes[j].change_id \in (Dispatched \cup send_failed)

\* C10: a dispatch failure does not stop the pass: the pass still returns,
\* every later eligible change has its dispatch attempted, and the returned
\* list holds exactly the alerts whose dispatch succeeded, each with the
\* change_id and score of its change, none for a change whose dispatch failed.
C10_FailureDoesNotStopThePass ==
    /\ send_failed # {} => am_pc # "raised"
    /\ am_pc = "returned" =>
          /\ am_index = Len(am_changes) + 1
          /\ Len(alerts_sent) = Len(slack_messages)
          /\ \A k \in 1..Len(alerts_sent) :
                /\ alerts_sent[k].change_id = slack_messages[k]
                /\ alerts_sent[k].change_id \notin send_failed
                /\ alerts_sent[k] = _format_alert(ChangeWithId(slack_messages[k]))
          /\ \A j \in 1..Len(am_changes) :
                ( /\ \E f \in send_failed : f < am_changes[j].change_id
                  /\ Eligible(am_changes[j]) )
                => am_changes[j].change_id \in (Dispatched \cup send_failed)

C10_Witness ==
    /\ am_pc = "returned"
    /\ Len(am_changes) = 2
    /\ am_changes[1].change_id \in send_failed
    /\ am_changes[2].change_id \in Returned

----------------------------------------------------------------------------
(* Shape, repeatability and stakeholder scoring of the records of          *)
(* detect_changes                                                          *)

\* C18: every record is well-formed.  Its change_type is added, removed or
\* modified; an added record has previous_value null, new_value non-null and
\* no field_changed; a removed record has new_value null, previous_value
\* non-null and no field_changed; a modified record has field_changed set and
\* both payloads are dicts with exactly the key field_changed.
C18_WellFormedRecords ==
    \A i \in 1..Len(changes) :
        LET r == changes[i]
        IN  /\ r.change_type \in {"added", "removed", "modified"}
            /\ r.change_type = "added" =>
                  /\ r.previous_value = None
                  /\ r.new_value # None
                  /\ r.field_changed = NoneVal
            /\ r.change_type = "removed" =>
                  /\ r.new_value = None
                  /\ r.previous_value # None
                  /\ r.field_changed = NoneVal
            /\ r.change_type = "modified" =>
                  /\ r.field_changed # NoneVal
                  /\ r.previous_value # None
                  /\ r.new_value # None
                  /\ DOMAIN r.previous_value.value = {r.field_changed}
                  /\ DOMAIN r.new_value.value = {r.field_changed}

\* one call that returned an added and a modified record, the modified
\* entity having more fields than the one that changed
C18_Witness ==
    /\ detect_pc = "done"
    /\ \E i, j \in 1..Len(changes) :
          /\ changes[i].change_type = "added"
          /\ changes[j].change_type = "modified"
          /\ DOMAIN DataOf(current_entities,
                            <<changes[j].entity_type, changes[j].entity_id>>)
                # {changes[j].field_changed}

\* a record without the attribute uuid4() sets
WithoutChangeId(r) == [r EXCEPT !.change_id = 0]

C20_RoleModifier(role) ==
    IF role \in {"CEO", "CFO", "CTO"} THEN 40
    ELSE IF role \in {"Board Chairman", "Board Member"} THEN 35
    ELSE IF role \in {"Executive Sponsor", "AI Program Lead"} THEN 20
    ELSE 0

\* the role of the stakeholder a record is about: that of the current
\* entity, of the previous entity for a removed stakeholder
C20_RoleOf(r) ==
    LET k == <<r.entity_type, r.entity_id>>
        d == IF r.change_type = "removed" THEN DataOf(previous_entities, k)
                                          ELSE DataOf(current_entities, k)
    IN  Get(d, "role", "")

\* C20: every stakeholder record, whatever its change type and whichever
\* field changed, carries the role modifier of the stakeholder: its score is
\* min(100, 30 + change-type modifier + role modifier).
C20_StakeholderRoleModifier ==
    detect_pc = "done" =>
        \A i \in 1..Len(changes) :
            LET r == changes[i]
            IN  r.entity_type = "stakeholder" =>
                    r.significance_score =
                        C5_Min(100, C5_Base("stakeholder")
                                    + C5_ChangeTable[r.change_type]
                                    + C20_RoleModifier(C20_RoleOf(r)))

----------------------------------------------------------------------------
(* detect_changes on lists that hold malformed entities: dicts without the *)
(* key entity_type, entity_id or data                                      *)

MalformedEntities ==
    {[entity_id |-> "a@x.com", data |-> [name |-> "A", role |-> "CEO"]],
     [entity_type |-> "stakeholder", data |-> [name |-> "A", role |-> "CEO"]],
     [entity_type |-> "stakeholder", entity_id |-> "c@x.com"]}

MixedEntities ==
    MalformedEntities
    \cup {Entity("stakeholder", "b@x.com", [name |-> "B", role |-> "Engineer"]),
          Entity("risk", "r1", [severity |-> "High", status |-> "Open"])}

InitMalformed ==
    /\ current_entities \in ListsUpTo(MixedEntities, MaxEntities)
    /\ previous_entities \in ListsUpTo(MixedEntities, MaxEntities)
    /\ changes = <<>>
    /\ changes_again = <<>>
    /\ detect_pc = "start"
    /\ AlertIdle
    /\ ActIdle
    /\ SideIdle

SpecMalformed == InitMalformed /\ [][NextDetect]_vars

C17_HasKey(e) == {"entity_type", "entity_id"} \subseteq DOMAIN e

\* the list without the entities that lack entity_type or entity_id, an
\* entity that lacks data given the empty field set
C17_Tolerated(entities) ==
    LET keyed == SelectSeq(entities, C17_HasKey)
    IN  [i \in 1..Len(keyed) |->
            Entity(keyed[i].entity_type, keyed[i].entity_id,
                   Get(keyed[i], "data", EmptyDict))]

\* C17: detect_changes never aborts because of a malformed entity.  The call
\* returns, and what it returns are the records of the two lists with the
\* entities lacking entity_type or entity_id left out and an entity lacking
\* data read as one with no fields.
C17_MalformedTolerated ==
    detect_pc # "start" =>
        /\ detect_pc # "raised"
        /\ changes = detect_changes(C17_Tolerated(current_entities),
                                    C17_Tolerated(previous_entities))

----------------------------------------------------------------------------
(* The process_alerts activity (src/activities.py:394-512).                *)
(*                                                                         *)
(* The tables detected_changes and alert_history are shared by the         *)
(* executions of the activity; a row of detected_changes is identified by  *)
(* its position.  An execution that raised is run again by Temporal, up to *)
(* MaximumAttempts attempts; every attempt is one pass.  One action per    *)
(* database statement or await of the activity.  An execution is "idle"    *)
(* until the workflow runs the activity.                                   *)

MaxStored == 2

\* the passes explored: first attempts and retries of all executions together
MaxPasses == 2

\* workflows.py:51, RetryPolicy(maximum_attempts=3)
MaximumAttempts == 3

StoredChanges ==
    {<<Triple("stakeholder", "a@x.com", "added"), 85>>,
     <<Triple("stakeholder", "a@x.com", "added"), 70>>,
     <<Triple("risk", "r1", "added"), 90>>}

\* a row as the detect_changes activity stores it: alert_sent defaults to False
StoredRow(i, triple, score) ==
    MakeChange(i, triple, score) @@ [alert_sent |-> FALSE]

StoredLists == UNION {[1..n -> StoredChanges] : n \in 1..MaxStored}

\* models.py:131-155, the attributes of the mapped class AlertHistory
AlertHistoryColumns ==
    {"id", "alert_timestamp", "change_id", "channel", "message_text",
     "message_ts", "acknowledged", "acknowledged_by", "acknowledged_at",
     "created_at", "change"}

\* the constructor of a declarative class: a keyword that is not an attribute
\* of the class raises TypeError; alert_timestamp is set by the server
NewAlertHistory(kwargs) ==
    IF DOMAIN kwargs \subseteq AlertHistoryColumns
    THEN Some(kwargs @@ [alert_timestamp |-> Datetime(0, TRUE)])
    ELSE [tag |-> "TypeError"]

\* activities.py:480-488, the keywords AlertHistory is called with
AlertHistoryKwargs(change) ==
    [change_id        |-> change.change_id,
     channel_id       |-> "channel_id",
     message_text     |-> "summary",
     slack_message_ts |-> "ts",
     entity_type      |-> change.entity_type,
     entity_id        |-> change.entity_id,
     change_type      |-> change.change_type]

\* activities.py:427-435, one row of alert_history made a dict; reading an
\* attribute the row does not have raises AttributeError
HistoryDict(a) ==
    IF {"change_id", "entity_type", "entity_id", "change_type",
        "alert_timestamp"} \subseteq DOMAIN a
    THEN Some([change_id       |-> a.change_id,
               entity_type     |-> a.entity_type,
               entity_id       |-> a.entity_id,
               change_type     |-> a.change_type,
               alert_timestamp |-> a.alert_timestamp])
    ELSE [tag |-> "AttributeError"]

\* activities.py:407-413, the ids the SELECT of unsent changes matches
UnsentCritical(rows, threshold) ==
    {i \in 1..Len(rows) :
        /\ rows[i].alert_sent = FALSE
        /\ rows[i].significance_score >= threshold}

\* activities.py:414, the orders ORDER BY significance_score DESC allows
ScoreOrders(rows, ids) ==
    {o \in [1..Cardinality(ids) -> ids] :
        \A i, j \in 1..Cardinality(ids) :
            i < j => /\ o[i] # o[j]
                     /\ rows[o[i]].significance_score
                            >= rows[o[j]].significance_score}

InitPasses ==
    /\ DetectIdle
    /\ AlertIdle
    /\ WorkflowIdle
    /\ SideIdle
    /\ \E sl \in StoredLists :
          db_changes = [i \in 1..Len(sl) |-> StoredRow(i, sl[i][1], sl[i][2])]
    /\ db_alert_history = <<>>
    /\ slack_posts = [i \in 1..Len(db_changes) |-> 0]
    /\ dispatch_failed = {}
    /\ pa_pc = [p \in Executions |-> "idle"]
    /\ pa_attempt = [p \in Executions |-> 0]
    /\ pa_critical = [p \in Executions |-> <<>>]
    /\ pa_history = [p \in Executions |-> <<>>]
    /\ pa_index = [p \in Executions |-> 1]
    /\ pa_alerts_sent = [p \in Executions |-> <<>>]
    /\ pa_attempted = [p \in Executions |-> {}]
    /\ pa_passes = 0

\* activities.py:406-418
SelectUnsent(p) ==
    /\ \/ pa_pc[p] = "start"
       \/ pa_pc[p] = "idle" /\ pa_passes < MaxPasses
    /\ \E o \in ScoreOrders(db_changes,
                            UnsentCritical(db_changes, DefaultThreshold)) :
          /\ pa_critical' = [pa_critical EXCEPT ![p] = o]
          /\ pa_pc' = [pa_pc EXCEPT ![p] =
                          IF o = <<>> THEN "returned" ELSE "history"]
    /\ IF pa_pc[p] = "idle"
       THEN /\ pa_attempt' = [pa_attempt EXCEPT ![p] = 1]
            /\ pa_passes' = pa_passes + 1
       ELSE UNCHANGED <<pa_attempt, pa_passes>>
    /\ UNCHANGED <<db_changes, db_alert_history, slack_posts, dispatch_failed,
                   pa_history, pa_index, pa_alerts_sent, pa_attempted>>
    /\ UNCHANGED <<detect_vars, am_vars, wf_vars, side_vars>>

\* activities.py:421-449: the rows of alert_history are read, newest first,
\* and made dicts; then the MCP session is set up, which succeeds
\* (session_opens) or raises
OpenPass(p, session_opens) ==
    /\ pa_pc[p] = "history"
    /\ LET n == Len(db_alert_history)
           dicts == [i \in 1..n |-> HistoryDict(db_alert_history[n + 1 - i])]
       IN  IF \E i \in 1..n : dicts[i].tag = "AttributeError"
           THEN /\ pa_pc' = [pa_pc EXCEPT ![p] = "raised"]
                /\ UNCHANGED pa_history
           ELSE /\ pa_history' = [pa_history EXCEPT ![p] =
                                     [i \in 1..n |-> dicts[i].value]]
                /\ pa_pc' = [pa_pc EXCEPT ![p] =
                                IF session_opens THEN "loop" ELSE "raised"]
    /\ UNCHANGED <<db_changes, db_alert_history, slack_posts, dispatch_failed,
                   pa_attempt, pa_critical, pa_index, pa_alerts_sent,
                   pa_attempted, pa_passes>>
    /\ UNCHANGED <<detect_vars, am_vars, wf_vars, side_vars>>

ReadHistoryAndOpenSession(p) == OpenPass(p, TRUE)

ReadHistoryAndFailSession(p) == OpenPass(p, FALSE)

\* alert_manager.py:51-63, how a turn of process_changes' loop goes on:
\* "skip" (continue), "TypeError" (the duplicate check raises) or "send"
TurnVerdict(change, history, threshold) ==
    IF BelowThreshold(change, threshold) THEN "skip"
    ELSE LET d == _is_duplicate(change, history)
         IN  IF d = "new" THEN "send"
             ELSE IF d = "dup" THEN "skip" ELSE "TypeError"

\* alert_manager.py:66-70, _send_alert returned
DispatchOk(p, id) ==
    /\ slack_posts' = [slack_posts EXCEPT ![id] = @ + 1]
    /\ pa_alerts_sent' = [pa_alerts_sent EXCEPT ![p] =
                             Append(@, _format_alert(db_changes[id]))]
    /\ pa_attempted' = [pa_attempted EXCEPT ![p] = @ \cup {id}]
    /\ pa_index' = [pa_index EXCEPT ![p] = @ + 1]
    /\ UNCHANGED <<db_changes, dispatch_failed, pa_pc>>

\* faulty variant: the handler of a failed dispatch marks the change as alerted
DispatchFails_MarksSent(p, id) ==
    /\ dispatch_failed' = dispatch_failed \cup {id}
    /\ db_changes' = [db_changes EXCEPT ![id].alert_sent = TRUE]
    /\ pa_attempted' = [pa_attempted EXCEPT ![p] = @ \cup {id}]
    /\ pa_index' = [pa_index EXCEPT ![p] = @ + 1]
    /\ UNCHANGED <<slack_posts, pa_alerts_sent, pa_pc>>

\* alert_manager.py:65-72, _format_alert or _send_alert raised: logged, and
\* the loop goes on
DispatchFails(p, id) ==
    /\ dispatch_failed' = dispatch_failed \cup {id}
    /\ pa_attempted' = [pa_attempted EXCEPT ![p] = @ \cup {id}]
    /\ pa_index' = [pa_index EXCEPT ![p] = @ + 1]
    /\ UNCHANGED <<db_changes, slack_posts, pa_alerts_sent, pa_pc>>

\* activities.py:466 with alert_manager.py:51-72, one turn of the loop of
\* process_changes
PassTurn(p) ==
    /\ pa_pc[p] = "loop"
    /\ pa_index[p] <= Len(pa_critical[p])
    /\ LET id == pa_critical[p][pa_index[p]]
           v  == TurnVerdict(db_changes[id], pa_history[p],
                             significance_threshold)
       IN  IF v = "skip"
           THEN /\ pa_index' = [pa_index EXCEPT ![p] = @ + 1]
                /\ UNCHANGED <<db_changes, slack_posts, dispatch_failed,
                               pa_pc, pa_alerts_sent, pa_attempted>>
           ELSE IF v = "TypeError"
           THEN /\ pa_pc' = [pa_pc EXCEPT ![p] = "raised"]
                /\ UNCHANGED <<db_changes, slack_posts, dispatch_failed,
                               pa_index, pa_alerts_sent, pa_attempted>>
           ELSE DispatchOk(p, id) \/ DispatchFails(p, id)
    /\ UNCHANGED <<db_alert_history, pa_attempt, pa_critical, pa_history,
                   pa_passes>>
    /\ UNCHANGED <<detect_vars, am_vars, wf_vars, side_vars>>

\* activities.py:468-491, 507-511: process_changes returned; every alert of
\* alerts_sent has its change marked and an AlertHistory built, then the
\* session is committed.  An exception leaves the session uncommitted and
\* db.close() discards it.
UpdateDatabase(p) ==
    /\ pa_pc[p] = "loop"
    /\ pa_index[p] > Len(pa_critical[p])
    /\ LET alerts  == pa_alerts_sent[p]
           alerted == {alerts[i].change_id : i \in 1..Len(alerts)}
           records == [i \in 1..Len(alerts) |->
                          NewAlertHistory(AlertHistoryKwargs(
                              db_changes[alerts[i].change_id]))]
       IN  IF \E i \in 1..Len(alerts) : records[i].tag = "TypeError"
           THEN /\ pa_pc' = [pa_pc EXCEPT ![p] = "raised"]
                /\ UNCHANGED <<db_changes, db_alert_history>>
           ELSE /\ db_changes' =
                      [id \in 1..Len(db_changes) |->
                          IF id \in alerted
                          THEN [db_changes[id] EXCEPT !.alert_sent = TRUE]
                          ELSE db_changes[id]]
                /\ db_alert_history' =
                      db_alert_history
                      \o [i \in 1..Len(alerts) |-> records[i].value]
                /\ pa_pc' = [pa_pc EXCEPT ![p] = "returned"]
    /\ UNCHANGED <<slack_posts, dispatch_failed, pa_attempt, pa_critical,
                   pa_history, pa_index, pa_alerts_sent, pa_attempted, pa_passes>>
    /\ UNCHANGED <<detect_vars, am_vars, wf_vars, side_vars>>

\* workflows.py:48-53, 111-115: Temporal runs an activity that raised again
RetryPass(p) ==
    /\ pa_pc[p] = "raised"
    /\ pa_attempt[p] < MaximumAttempts
    /\ pa_passes < MaxPasses
    /\ pa_passes' = pa_passes + 1
    /\ pa_pc' = [pa_pc EXCEPT ![p] = "start"]
    /\ pa_attempt' = [pa_attempt EXCEPT ![p] = @ + 1]
    /\ pa_critical' = [pa_critical EXCEPT ![p] = <<>>]
    /\ pa_history' = [pa_history EXCEPT ![p] = <<>>]
    /\ pa_index' = [pa_index EXCEPT ![p] = 1]
    /\ pa_alerts_sent' = [pa_alerts_sent EXCEPT ![p] = <<>>]
    /\ pa_attempted' = [pa_attempted EXCEPT ![p] = {}]
    /\ UNCHANGED <<db_changes, db_alert_history, slack_posts, dispatch_failed>>
    /\ UNCHANGED <<detect_vars, am_vars, wf_vars, side_vars>>

NextPasses ==
    \E p \in Executions :
        \/ SelectUnsent(p)
        \/ ReadHistoryAndOpenSession(p)
        \/ ReadHistoryAndFailSession(p)
        \/ PassTurn(p)
        \/ UpdateDatabase(p)
        \/ RetryPass(p)

SpecPasses == InitPasses /\ [][NextPasses]_vars

----------------------------------------------------------------------------
(* Properties of the passes of process_alerts *)

\* the ids of a list of ids
IdsOf(ids) == {ids[i] : i \in 1..Len(ids)}

\* the change ids of the alerts process_changes returned to execution p
AlertedBy(p) == {pa_alerts_sent[p][i].change_id : i \in 1..Len(pa_alerts_sent[p])}

\* the number of alert_history rows that refer to change id
HistoryRowsOf(id) ==
    Cardinality({i \in 1..Len(db_alert_history) :
                    db_alert_history[i].change_id = id})

\* no pass is under way
NoPassRunning == \A p \in Executions : pa_pc[p] \in {"idle", "returned", "raised"}

\* C11: process_alerts marks a change alert_sent, and appends one alert
\* history record for it, when and only when a notification was dispatched
\* for it.  Once the passes have ended, a stored change has alert_sent set
\* exactly if the channel received a message about it, and alert_history
\* holds one row per message.
C11_SentIffDispatched ==
    NoPassRunning =>
        \A id \in 1..Len(db_changes) :
            /\ db_changes[id].alert_sent = (slack_posts[id] > 0)
            /\ HistoryRowsOf(id) = slack_posts[id]

\* a pass of execution p has gone through its loop
LoopDone(p) == pa_pc[p] = "loop" /\ pa_index[p] > Len(pa_critical[p])

\* C12: a change whose dispatch failed is not lost.  It stays stored with
\* alert_sent false (as long as no later dispatch succeeded), every later
\* SELECT of unsent changes returns it while its score is at or above the
\* threshold, and every pass that selected it and ran its loop attempted its
\* dispatch again.
C12_FailedDispatchRetried ==
    [][ /\ \A id \in dispatch_failed' :
              /\ id \in 1..Len(db_changes')
              /\ db_changes'[id].alert_sent = FALSE \/ slack_posts'[id] > 0
        /\ \A p \in Executions :
              /\ ( /\ pa_pc[p] \in {"idle", "start"}
                   /\ pa_pc'[p] \notin {"idle", "start"} )
                 => \A id \in dispatch_failed :
                        ( /\ db_changes[id].alert_sent = FALSE
                          /\ db_changes[id].significance_score
                                >= DefaultThreshold )
                        => id \in IdsOf(pa_critical'[p])
              /\ ( /\ pa_pc'[p] = "loop"
                   /\ pa_index'[p] > Len(pa_critical'[p]) )
                 => (IdsOf(pa_critical'[p]) \cap dispatch_failed')
                        \subseteq pa_attempted'[p] ]_vars

\* the first attempt of an execution failed to dispatch a change and raised;
\* its second attempt, the next pass, dispatched that change
C12_Witness ==
    \E p \in Executions, id \in dispatch_failed :
        /\ pa_attempt[p] = 2
        /\ \A q \in Executions \ {p} : pa_pc[q] = "idle"
        /\ slack_posts[id] = 1
        /\ id \in AlertedBy(p)

\* execution p is between its SELECT of unsent changes and its commit
InPass(p) == pa_pc[p] \in {"history", "loop"}

\* C16: two concurrent executions of process_alerts never both alert for a
\* change both of them read as unsent: while both are between their read of
\* the unsent changes and their write, at most one of them has dispatched
\* the notification of a change they both hold.
C16_NoConcurrentDoubleDispatch ==
    \A p, q \in Executions :
        (p # q /\ InPass(p) /\ InPass(q)) =>
            \A id \in IdsOf(pa_critical[p]) \cap IdsOf(pa_critical[q]) :
                ~(id \in AlertedBy(p) /\ id \in AlertedBy(q))

----------------------------------------------------------------------------
(* IngestionWorkflow.run (src/workflows.py:29-139) and the tables its      *)
(* activities write.                                                       *)
(*                                                                         *)
(* The workflow awaits its activities one after the other; Temporal runs   *)
(* an activity that raised again, up to MaximumAttempts attempts, and      *)
(* raises in the workflow when the last attempt raised.  One workflow run  *)
(* is one cycle.  A row of ingestion_runs carries its source, its status,  *)
(* its run_timestamp (a logical clock) and the cycle that wrote it.        *)

MaxCycles == 2

\* the failed attempts explored, over all cycles
MaxFailures == 3

\* faulty variant: detection is awaited right after the first ingestion
WorkflowSteps_DetectEarly ==
    <<"slack_ingestion", "detect_changes", "notion_ingestion",
      "external_ingestion", "process_alerts">>

\* workflows.py:58-115, the activities in the order run awaits them
WorkflowSteps ==
    <<"slack_ingestion", "notion_ingestion", "external_ingestion",
      "detect_changes", "process_alerts">>

IngestionActivities ==
    {"slack_ingestion", "notion_ingestion", "external_ingestion"}

\* activities.py:101,174,247
SourceOf(step) ==
    CASE step = "slack_ingestion"    -> "slack"
      [] step = "notion_ingestion"   -> "notion"
      [] step = "external_ingestion" -> "external"

\* activities.py:100-110,124-134: the row an ingestion attempt commits
IngestionRun(source, status) ==
    [source        |-> source,
     status        |-> status,
     run_timestamp |-> Len(ingestion_runs) + 1,
     cycle         |-> wf_cycle]

\* activities.py:299-303, ORDER BY run_timestamp DESC LIMIT 1; 0 when no row
LatestRun(runs) ==
    IF runs = <<>> THEN 0
    ELSE CHOOSE i \in 1..Len(runs) :
             \A j \in 1..Len(runs) :
                 runs[j].run_timestamp <= runs[i].run_timestamp

\* activities.py:316-321, the newest row other than latest_run; 0 when none
PreviousRun(runs, latest) ==
    LET others == (1..Len(runs)) \ {latest}
    IN  IF others = {} THEN 0
        ELSE CHOOSE i \in others :
                 \A j \in others :
                     runs[j].run_timestamp <= runs[i].run_timestamp

\* activities.py:310-313,325-328 with 334-350: the rows of entity_snapshots
\* of one run, as entity dicts.  No statement of the program inserts a row
\* into entity_snapshots, so the table is empty.
SnapshotEntities(run_id) == <<>>

\* activities.py:355-371, the row stored for a detected change
DetectedChangeRow(id, change) ==
    [change_id          |-> id,
     entity_type        |-> change.entity_type,
     entity_id          |-> change.entity_id,
     change_type        |-> change.change_type,
     significance_score |-> change.significance_score,
     significance_level |-> change.significance_level,
     alert_sent         |-> FALSE]

CurrentStep == WorkflowSteps[wf_step]

InitWorkflow ==
    /\ DetectIdle
    /\ AlertIdle
    /\ PassIdle
    /\ WorkflowIdle
    /\ SideIdle

\* workflows.py:30, a run of the workflow starts: the next cycle
StartWorkflow ==
    /\ wf_pc \in {"idle", "completed", "failed"}
    /\ wf_cycle < MaxCycles
    /\ wf_cycle' = wf_cycle + 1
    /\ wf_step' = 1
    /\ wf_pc' = "scheduled"
    /\ wf_attempt' = 1
    /\ wf_started' = {}
    /\ wf_completed' = {}
    /\ wf_exhausted' = {}
    /\ UNCHANGED <<ingestion_runs, wf_failures, da_current_runs,
                   da_previous_runs>>
    /\ UNCHANGED <<detect_vars, am_vars, pa_vars, side_vars>>

\* an attempt of the awaited activity starts
StartAttempt ==
    /\ wf_pc = "scheduled"
    /\ wf_pc' = "running"
    /\ wf_started' = wf_started \cup {CurrentStep}
    /\ UNCHANGED <<ingestion_runs, wf_cycle, wf_step, wf_attempt, wf_completed,
                   wf_exhausted, wf_failures, da_current_runs,
                   da_previous_runs>>
    /\ UNCHANGED <<detect_vars, am_vars, pa_vars, side_vars>>

\* the awaited activity returned: run goes on to the next await, or returns
ActivityReturned ==
    /\ wf_completed' = wf_completed \cup {CurrentStep}
    /\ wf_attempt' = 1
    /\ IF wf_step < Len(WorkflowSteps)
       THEN wf_step' = wf_step + 1 /\ wf_pc' = "scheduled"
       ELSE wf_step' = wf_step /\ wf_pc' = "completed"

\* the attempt raised: Temporal schedules another attempt, or, after the
\* last one, the await raises and run, which catches nothing, fails
ActivityRaised ==
    /\ wf_failures' = wf_failures + 1
    /\ UNCHANGED <<wf_step, wf_completed>>
    /\ IF wf_attempt < MaximumAttempts
       THEN /\ wf_attempt' = wf_attempt + 1
            /\ wf_pc' = "scheduled"
            /\ UNCHANGED wf_exhausted
       ELSE /\ wf_attempt' = wf_attempt
            /\ wf_pc' = "failed"
            /\ wf_exhausted' =
                  IF CurrentStep \in IngestionActivities
                  THEN wf_exhausted \cup {CurrentStep} ELSE wf_exhausted

Running(step) == wf_pc = "running" /\ CurrentStep = step

\* activities.py:95-120 (slack), 168-193, 241-266: the agent ingested, the
\* run is stored as success and the activity returns
IngestionSucceeds ==
    /\ wf_pc = "running"
    /\ CurrentStep \in IngestionActivities
    /\ ingestion_runs' =
          Append(ingestion_runs, IngestionRun(SourceOf(CurrentStep), "success"))
    /\ ActivityReturned
    /\ UNCHANGED <<wf_cycle, wf_started, wf_exhausted, wf_failures,
                   da_current_runs, da_previous_runs>>
    /\ UNCHANGED <<detect_vars, am_vars, pa_vars, side_vars>>

\* activities.py:95-120 with agents/slack_agent.py:67-78: the agent caught
\* its own failure and returned success=False; the run is stored as failed
\* and the activity returns
IngestionReportsFailure ==
    /\ wf_pc = "running"
    /\ CurrentStep \in IngestionActivities
    /\ wf_failures < MaxFailures
    /\ wf_failures' = wf_failures + 1
    /\ ingestion_runs' =
          Append(ingestion_runs, IngestionRun(SourceOf(CurrentStep), "failed"))
    /\ ActivityReturned
    /\ UNCHANGED <<wf_cycle, wf_started, wf_exhausted, da_current_runs,
                   da_previous_runs>>
    /\ UNCHANGED <<detect_vars, am_vars, pa_vars, side_vars>>

\* activities.py:122-135 (slack), 195-208, 268-281: an exception reaches the
\* activity's except branch, which stores a failed run and raises again
IngestionRaises ==
    /\ wf_pc = "running"
    /\ CurrentStep \in IngestionActivities
    /\ wf_failures < MaxFailures
    /\ ingestion_runs' =
          Append(ingestion_runs, IngestionRun(SourceOf(CurrentStep), "failed"))
    /\ ActivityRaised
    /\ UNCHANGED <<wf_cycle, wf_started, da_current_runs, da_previous_runs>>
    /\ UNCHANGED <<detect_vars, am_vars, pa_vars, side_vars>>

\* activities.py:286-391, the detect_changes activity returns: it read the
\* newest run and the newest other run, ran the detector on their snapshot
\* rows and stored the records found
DetectChangesReturns ==
    /\ Running("detect_changes")
    /\ LET latest   == LatestRun(ingestion_runs)
           previous == IF latest = 0 THEN 0
                       ELSE PreviousRun(ingestion_runs, latest)
           found    == IF latest = 0 THEN <<>>
                       ELSE detect_changes(
                                SnapshotEntities(latest),
                                IF previous = 0 THEN <<>>
                                ELSE SnapshotEntities(previous))
       IN  /\ da_current_runs' = IF latest = 0 THEN {} ELSE {latest}
           /\ da_previous_runs' = IF previous = 0 THEN {} ELSE {previous}
           /\ db_changes' =
                 db_changes
                 \o [i \in 1..Len(found) |->
                        DetectedChangeRow(Len(db_changes) + i, found[i])]
    /\ ActivityReturned
    /\ UNCHANGED <<ingestion_runs, wf_cycle, wf_started, wf_exhausted,
                   wf_failures>>
    /\ UNCHANGED <<db_alert_history, slack_posts, dispatch_failed, pa_pc,
                   pa_attempt, pa_critical, pa_history, pa_index,
                   pa_alerts_sent, pa_attempted, pa_passes>>
    /\ UNCHANGED <<detect_vars, am_vars, side_vars>>

\* activities.py:387-391, the detect_changes activity raises
DetectChangesRaises ==
    /\ Running("detect_changes")
    /\ wf_failures < MaxFailures
    /\ ActivityRaised
    /\ UNCHANGED <<ingestion_runs, wf_cycle, wf_started, da_current_runs,
                   da_previous_runs>>
    /\ UNCHANGED <<detect_vars, am_vars, pa_vars, side_vars>>

\* workflows.py:111-117, the process_alerts activity (modelled step by step
\* under SpecPasses) returns
ProcessAlertsReturns ==
    /\ Running("process_alerts")
    /\ ActivityReturned
    /\ UNCHANGED <<ingestion_runs, wf_cycle, wf_started, wf_exhausted,
                   wf_failures, da_current_runs, da_previous_runs>>
    /\ UNCHANGED <<detect_vars, am_vars, pa_vars, side_vars>>

\* activities.py:507-509, the process_alerts activity raises
ProcessAlertsRaises ==
    /\ Running("process_alerts")
    /\ wf_failures < MaxFailures
    /\ ActivityRaised
    /\ UNCHANGED <<ingestion_runs, wf_cycle, wf_started, da_current_runs,
                   da_previous_runs>>
    /\ UNCHANGED <<detect_vars, am_vars, pa_vars, side_vars>>

NextWorkflow ==
    \/ StartWorkflow
    \/ StartAttempt
    \/ IngestionSucceeds
    \/ IngestionReportsFailure
    \/ IngestionRaises
    \/ DetectChangesReturns
    \/ DetectChangesRaises
    \/ ProcessAlertsReturns
    \/ ProcessAlertsRaises

SpecWorkflow == InitWorkflow /\ [][NextWorkflow]_vars

----------------------------------------------------------------------------
(* Properties of the workflow and of the runs detection compares *)

RunsOfCycle(c) ==
    {i \in 1..Len(ingestion_runs) : ingestion_runs[i].cycle = c}

SuccessfulRunsOfCycle(c) ==
    {i \in RunsOfCycle(c) : ingestion_runs[i].status = "success"}

\* C13: the detect_changes activity hands the detector, as current, the
\* entities of all sources of the latest cycle and, as previous, those of
\* the cycle before (none on the first cycle).  The runs whose snapshots it
\* reads as current are runs of this cycle and include every successful one;
\* those it reads as previous are runs of the preceding cycle and include
\* every successful one; it never reads current and previous from two runs
\* of one cycle.
C13_CycleAgainstPrecedingCycle ==
    "detect_changes" \in wf_completed =>
        /\ da_current_runs \subseteq RunsOfCycle(wf_cycle)
        /\ SuccessfulRunsOfCycle(wf_cycle) \subseteq da_current_runs
        /\ da_previous_runs \subseteq RunsOfCycle(wf_cycle - 1)
        /\ SuccessfulRunsOfCycle(wf_cycle - 1) \subseteq da_previous_runs
        /\ \A i \in da_current_runs, j \in da_previous_runs :
              ingestion_runs[i].cycle # ingestion_runs[j].cycle

\* C14: in every run of the workflow detect_changes starts only after the
\* slack, notion and external ingestion activities of the run have all
\* returned, and process_alerts starts only after detect_changes returned.
C14_StagesInOrder ==
    /\ "detect_changes" \in wf_started =>
          IngestionActivities \subseteq wf_completed
    /\ "process_alerts" \in wf_started => "detect_changes" \in wf_completed

\* the second cycle's process_alerts is running after an ingestion attempt
\* of that cycle had to be repeated
C14_Witness ==
    /\ Running("process_alerts")
    /\ wf_cycle = 2
    /\ \E i, j \in RunsOfCycle(2) :
          /\ i < j
          /\ ingestion_runs[i].source = ingestion_runs[j].source
          /\ ingestion_runs[j].status = "success"

\* C15: an ingestion activity that raised on every attempt has its failure
\* recorded and does not stop the cycle: the run does not end before
\* detect_changes and process_alerts have been started.
C15_FailedSourceDoesNotStopCycle ==
    \A step \in wf_exhausted :
        /\ \E i \in RunsOfCycle(wf_cycle) :
              /\ ingestion_runs[i].source = SourceOf(step)
              /\ ingestion_runs[i].status = "failed"
        /\ wf_pc \in {"completed", "failed"} =>
              {"detect_changes", "process_alerts"} \subseteq wf_started

----------------------------------------------------------------------------
(* Risk scoring and the range of the scores of detect_changes *)

\* the severity of the risk a record is about: that of the current entity,
\* of the previous entity for a removed risk
C21_SeverityOf(r) ==
    LET k == <<r.entity_type, r.entity_id>>
        d == IF r.change_type = "removed" THEN DataOf(previous_entities, k)
                                          ELSE DataOf(current_entities, k)
    IN  Get(d, "severity", "")

C21_SeverityModifier(severity) ==
    IF severity = "Critical" THEN 40 ELSE IF severity = "High" THEN 25 ELSE 0

\* C21: every risk record, whether added, removed or modified, carries the
\* severity modifier of the risk: its score is
\* min(100, 35 + change-type modifier + severity modifier).
C21_RiskSeverityModifier ==
    detect_pc = "done" =>
        \A i \in 1..Len(changes) :
            LET r == changes[i]
            IN  r.entity_type = "risk" =>
                    r.significance_score =
                        C5_Min(100, C5_Base("risk")
                                    + C5_ChangeTable[r.change_type]
                                    + C21_SeverityModifier(C21_SeverityOf(r)))

\* the highest score a record of each entity type can have
C30_TypeMax(entity_type) ==
    CASE entity_type = "stakeholder"    -> 90
      [] entity_type = "program"        -> 65
      [] entity_type = "risk"           -> 90
      [] entity_type = "timeline"       -> 40
      [] entity_type = "governance"     -> 45
      [] entity_type = "external_event" -> 95
      [] OTHER                          -> 30

\* C30: with the default threshold of 75 only stakeholder, risk and
\* external_event records can be alerted.  Records of type program, timeline,
\* governance or an unknown type score at most 65, 40, 45 and 30, no record
\* scores above 95, and every score is the plain sum of base, change-type
\* modifier and entity modifier: the cap at 100 changes nothing.
C30_AlertableTypes ==
    \A i \in 1..Len(changes) :
        LET r == changes[i]
        IN  /\ r.significance_score <= C30_TypeMax(r.entity_type)
            /\ r.significance_score <= 95
            /\ \E m \in C5_Modifiers(r.entity_type) :
                  r.significance_score =
                      C5_Base(r.entity_type) + C5_ChangeTable[r.change_type] + m
            /\ ~BelowThreshold(r, DefaultThreshold) =>
                  r.entity_type \in {"stakeholder", "risk", "external_event"}

\* a call whose one record reaches the highest score of its type, for a
\* program (a status changed to Blocked or At Risk) or an external event
C30_Witness ==
    /\ detect_pc = "done"
    /\ Len(changes) = 1
    /\ \/ /\ changes[1].entity_type = "program"
          /\ changes[1].significance_score = 65
       \/ /\ changes[1].entity_type = "external_event"
          /\ changes[1].significance_score = 95

----------------------------------------------------------------------------
(* One alert per triple within a pass of process_changes *)

\* C28: within one pass of process_changes at most one alert is dispatched
\* for any (entity_type, entity_id, change_type) triple: an alert sent earlier
\* in the pass suppresses a later change of the same triple.
C28_OneAlertPerTripleInPass ==
    \A i, j \in 1..Len(slack_messages) :
        i # j => ~SameTriple(ChangeWithId(slack_messages[i]),
                             ChangeWithId(slack_messages[j]))

----------------------------------------------------------------------------
(* Successive attempts of process_alerts *)

\* only execution p has started: its attempts follow one another
OnlyExecution(p) == \A q \in Executions \ {p} : pa_pc[q] = "idle"

\* C27: across the successive attempts of process_alerts, retries after a
\* failure between the dispatch and the commit included, the channel receives
\* at most one notification per stored change.
C27_AtMostOneNotificationPerChange ==
    (\E p \in Executions : OnlyExecution(p)) =>
        \A id \in 1..Len(db_changes) : slack_posts[id] <= 1

----------------------------------------------------------------------------
(* BaseIngestionAgent.call_mcp_tool (src/agents/base.py) *)

\* the values of max_retries explored: 0..MaxRetries
MaxRetries == 4

ToolErrors == {"TimeoutError", "McpError"}

ToolContents == {"content_a", "content_b"}

\* mcp_session.call_tool returned a result with this content
ToolResult(content) == [ok |-> TRUE, content |-> content]

\* mcp_session.call_tool raised this exception
ToolFailure(error) == [ok |-> FALSE, error |-> error]

Raised(error) == [tag |-> "raised", error |-> error]

\* base.py:106, the seconds of asyncio.sleep(2 ** attempt)
BackoffSeconds(attempt) == 2 ^ attempt

InitMcp ==
    /\ DetectIdle
    /\ AlertIdle
    /\ ActIdle
    /\ ExternalIdle
    /\ DigestIdle
    /\ mcp_max_retries \in 0..MaxRetries
    /\ mcp_attempt = 0
    /\ mcp_calls = <<>>
    /\ mcp_slept = <<>>
    /\ mcp_result = None
    /\ mcp_pc = "call"

\* base.py:95, range(max_retries) has a next value
InRetryLoop == mcp_pc = "call" /\ mcp_attempt < mcp_max_retries

\* base.py:96-100, call_tool returned: its content is returned at once
CallSucceeds(content) ==
    /\ InRetryLoop
    /\ mcp_calls' = Append(mcp_calls, ToolResult(content))
    /\ mcp_result' = Some(content)
    /\ mcp_pc' = "returned"
    /\ UNCHANGED <<mcp_max_retries, mcp_attempt, mcp_slept>>
    /\ UNCHANGED <<detect_vars, am_vars, act_vars, ext_vars, dg_vars>>

\* faulty variant: the exception of the last attempt is swallowed as well
CallFails_Swallowed(error) ==
    /\ InRetryLoop
    /\ mcp_calls' = Append(mcp_calls, ToolFailure(error))
    /\ mcp_pc' = "sleep"
    /\ UNCHANGED <<mcp_max_retries, mcp_attempt, mcp_slept, mcp_result>>
    /\ UNCHANGED <<detect_vars, am_vars, act_vars, ext_vars, dg_vars>>

\* base.py:101-105, call_tool raised: the exception is raised again on the
\* last attempt, and swallowed before a sleep on the others
CallFails(error) ==
    /\ InRetryLoop
    /\ mcp_calls' = Append(mcp_calls, ToolFailure(error))
    /\ IF mcp_attempt = mcp_max_retries - 1
       THEN /\ mcp_pc' = "raised"
            /\ mcp_result' = Raised(error)
       ELSE /\ mcp_pc' = "sleep"
            /\ UNCHANGED mcp_result
    /\ UNCHANGED <<mcp_max_retries, mcp_attempt, mcp_slept>>
    /\ UNCHANGED <<detect_vars, am_vars, act_vars, ext_vars, dg_vars>>

\* base.py:106-107 and 95, the sleep ends and the loop takes its next value
Backoff ==
    /\ mcp_pc = "sleep"
    /\ mcp_slept' = Append(mcp_slept, BackoffSeconds(mcp_attempt))
    /\ mcp_attempt' = mcp_attempt + 1
    /\ mcp_pc' = "call"
    /\ UNCHANGED <<mcp_max_retries, mcp_calls, mcp_result>>
    /\ UNCHANGED <<detect_vars, am_vars, act_vars, ext_vars, dg_vars>>

\* base.py:95, range(max_retries) is exhausted: the function ends without a
\* return statement and so returns None
LoopExhausted ==
    /\ mcp_pc = "call"
    /\ mcp_attempt >= mcp_max_retries
    /\ mcp_result' = None
    /\ mcp_pc' = "returned"
    /\ UNCHANGED <<mcp_max_retries, mcp_attempt, mcp_calls, mcp_slept>>
    /\ UNCHANGED <<detect_vars, am_vars, act_vars, ext_vars, dg_vars>>

NextMcp ==
    \/ \E content \in ToolContents : CallSucceeds(content)
    \/ \E error \in ToolErrors : CallFails(error)
    \/ Backoff
    \/ LoopExhausted

SpecMcp == InitMcp /\ [][NextMcp]_vars

AllCallsFailed == \A i \in 1..Len(mcp_calls) : ~mcp_calls[i].ok

LastCall == mcp_calls[Len(mcp_calls)]

\* C25: with max_retries >= 1, call_mcp_tool calls the tool at most
\* max_retries times; no call follows a successful one, whose content is what
\* the function returns; it raises, and then the error of the last call,
\* exactly when max_retries calls have failed; it never returns without a
\* successful call.
C25_RetryContract ==
    mcp_max_retries >= 1 =>
        /\ Len(mcp_calls) <= mcp_max_retries
        /\ \A i \in 1..(Len(mcp_calls) - 1) : ~mcp_calls[i].ok
        /\ (mcp_calls # <<>> /\ LastCall.ok)
              => /\ mcp_pc = "returned"
                 /\ mcp_result = Some(LastCall.content)
        /\ mcp_pc = "returned" => (mcp_calls # <<>> /\ LastCall.ok)
        /\ mcp_pc = "raised"
              <=> (Len(mcp_calls) = mcp_max_retries /\ AllCallsFailed)
        /\ mcp_pc = "raised" => mcp_result = Raised(LastCall.error)

\* three calls failed, the last with another error than the first, and the
\* function raised after sleeping 1 and 2 seconds
C25_Witness ==
    /\ mcp_max_retries = 3
    /\ mcp_pc = "raised"
    /\ Len(mcp_calls) = 3
    /\ mcp_calls[1].error # mcp_calls[3].error
    /\ mcp_slept = <<1, 2>>

----------------------------------------------------------------------------
(* The daily limit of alerts *)

\* config.py:138-141, the default of AlertingSettings.max_alerts_per_day
MaxAlertsPerDayDefault == 20

\* values of the setting: the default, and 1 as ALERT_MAX_ALERTS_PER_DAY=1
\* sets it
MaxAlertsPerDaySettings == {1, MaxAlertsPerDayDefault}

RECURSIVE SumTo(_, _)
SumTo(counts, n) == IF n = 0 THEN 0 ELSE counts[n] + SumTo(counts, n - 1)

\* the notifications the channel received in all passes; the passes of the
\* model follow one another within seconds, within one day
AlertsOfTheDay == SumTo(slack_posts, Len(slack_posts))

\* C24: whatever max_alerts_per_day is set to, the passes of process_alerts
\* of one day dispatch at most that many alerts.
C24_DailyLimit ==
    \A max_alerts_per_day \in MaxAlertsPerDaySettings :
        AlertsOfTheDay <= max_alerts_per_day

----------------------------------------------------------------------------
(* ExternalIngestionAgent.normalize (src/agents/external_agent.py).        *)
(* A str whose characters matter (a title) is the sequence of its          *)
(* characters; the other strs are TLA+ strings.                            *)

\* the raw items of one call of normalize: lists of 0..MaxRawItems items
MaxRawItems == 2

UpperToLower ==
    ("A" :> "a") @@ ("B" :> "b") @@ ("C" :> "c") @@ ("D" :> "d")
    @@ ("E" :> "e") @@ ("F" :> "f") @@ ("G" :> "g") @@ ("H" :> "h")
    @@ ("I" :> "i") @@ ("J" :> "j") @@ ("K" :> "k") @@ ("L" :> "l")
    @@ ("M" :> "m") @@ ("N" :> "n") @@ ("O" :> "o") @@ ("P" :> "p")
    @@ ("Q" :> "q") @@ ("R" :> "r") @@ ("S" :> "s") @@ ("T" :> "t")
    @@ ("U" :> "u") @@ ("V" :> "v") @@ ("W" :> "w") @@ ("X" :> "x")
    @@ ("Y" :> "y") @@ ("Z" :> "z")

\* str.lower() on the characters the titles are made of
Lower(text) ==
    [i \in 1..Len(text) |->
        IF text[i] \in DOMAIN UpperToLower THEN UpperToLower[text[i]]
                                           ELSE text[i]]

\* word in text, for two strs
Contains(word, text) ==
    \E i \in 0..(Len(text) - Len(word)) :
        \A j \in 1..Len(word) : text[i + j] = word[j]

\* any(word in text for word in words)
AnyWordIn(words, text) == \E word \in words : Contains(word, text)

\* external_agent.py:356
MergerWords ==
    {<<"m", "e", "r", "g", "e", "r">>,
     <<"a", "c", "q", "u", "i", "s", "i", "t", "i", "o", "n">>,
     <<"a", "c", "q", "u", "i", "r", "e", "s">>,
     <<"m", "&", "a">>}

\* external_agent.py:358
ExecutiveWords ==
    {<<"c", "e", "o">>,
     <<"c", "f", "o">>,
     <<"e", "x", "e", "c", "u", "t", "i", "v", "e">>,
     <<"a", "p", "p", "o", "i", "n", "t">>,
     <<"r", "e", "s", "i", "g", "n">>}

\* external_agent.py:360
FinancialWords ==
    {<<"e", "a", "r", "n", "i", "n", "g", "s">>,
     <<"r", "e", "v", "e", "n", "u", "e">>,
     <<"p", "r", "o", "f", "i", "t">>,
     <<"l", "o", "s", "s">>}

\* external_agent.py:362
PartnershipWords ==
    {<<"p", "a", "r", "t", "n", "e", "r", "s", "h", "i", "p">>,
     <<"p", "a", "r", "t", "n", "e", "r">>,
     <<"c", "o", "l", "l", "a", "b", "o", "r", "a", "t", "i", "o", "n">>}

NewsTitles ==
    <<<<"F", "I", "S", " ", "a", "c", "q", "u", "i", "r", "e", "s", " ", "W", "o", "r", "l", "d", "p", "a", "y", " ", "s", "t", "a", "k", "e">>,
     <<"F", "I", "S", " ", "n", "a", "m", "e", "s", " ", "n", "e", "w", " ", "C", "E", "O">>,
     <<"C", "E", "O", " ", "o", "n", " ", "t", "h", "e", " ", "m", "e", "r", "g", "e", "r">>,
     <<"R", "e", "s", "u", "l", "t", "s", " ", "d", "i", "s", "a", "p", "p", "o", "i", "n", "t", "i", "n", "g">>,
     <<"F", "I", "S", " ", "Q", "3", " ", "e", "a", "r", "n", "i", "n", "g", "s">>,
     <<"F", "I", "S", " ", "a", "n", "d", " ", "V", "i", "s", "a", " ", "p", "a", "r", "t", "n", "e", "r">>,
     <<"F", "I", "S", " ", "o", "p", "e", "n", "s", " ", "o", "f", "f", "i", "c", "e">>>>

\* datetime.isoformat(): the str of a datetime
isoformat(ts) == [iso |-> ts]

\* external_agent.py:160-168, an item of _fetch_sec_filings; the accession
\* number tells the filings apart
SecFiling(form_type, accession_number) ==
    [type             |-> "sec_filing",
     form_type        |-> form_type,
     filing_date      |-> "2024-01-15",
     accession_number |-> accession_number,
     description      |-> "description",
     url              |-> "https://www.sec.gov/Archives",
     timestamp        |-> Datetime(0, TRUE)]

\* external_agent.py:259-266, an item of _fetch_news_mentions
NewsItem(title, url) ==
    [type           |-> "news",
     title          |-> title,
     url            |-> url,
     source         |-> "Reuters",
     published_date |-> isoformat(Datetime(-1, TRUE)),
     timestamp      |-> Datetime(-1, TRUE)]

FormTypes == {"8-K", "10-K", "10-Q", "DEF 14A", "4", "S-8"}

RawItems ==
    {SecFiling(f, "acc-" \o f) : f \in FormTypes}
    \cup {NewsItem(NewsTitles[i], "https://news.google.com/" \o ToString(i)) :
             i \in 1..Len(NewsTitles)}
    \cup {[type |-> "press_release"]}

\* external_agent.py:315-331, event_type and significance of a filing
FilingEventType(form_type) ==
    IF form_type = "8-K" THEN "Material Event Filing"
    ELSE IF form_type \in {"10-K", "10-Q"} THEN "Financial Report"
    ELSE IF form_type = "DEF 14A" THEN "Proxy Statement"
    ELSE IF form_type = "4" THEN "Insider Trading Report"
    ELSE "SEC Filing"

FilingSignificance(form_type) ==
    IF form_type = "8-K" THEN "High" ELSE "Medium"

\* external_agent.py:311-347
_normalize_sec_filing(filing) ==
    LET form_type == Get(filing, "form_type", "")
    IN  Entity("external_event", Get(filing, "accession_number", ""),
               [title          |-> "FIS " \o form_type \o " Filing",
                event_type     |-> FilingEventType(form_type),
                description    |-> Get(filing, "description", "description"),
                source         |-> "SEC EDGAR",
                url            |-> Get(filing, "url", ""),
                published_date |-> Get(filing, "filing_date", ""),
                significance   |-> FilingSignificance(form_type),
                timestamp      |-> isoformat(Get(filing, "timestamp",
                                                 Datetime(0, TRUE)))])

\* external_agent.py:352-363, event_type of a news item from its title
NewsEventType(title) ==
    LET title_lower == Lower(title)
    IN  IF AnyWordIn(MergerWords, title_lower) THEN "M&A Activity"
        ELSE IF AnyWordIn(ExecutiveWords, title_lower) THEN "Executive Change"
        ELSE IF AnyWordIn(FinancialWords, title_lower) THEN "Financial Results"
        ELSE IF AnyWordIn(PartnershipWords, title_lower)
             THEN "Partnership Announcement"
        ELSE "News Article"

\* external_agent.py:365-370
NewsSignificance(event_type) ==
    IF event_type \in {"M&A Activity", "Executive Change"} THEN "High"
    ELSE IF event_type \in {"Financial Results", "Partnership Announcement"}
         THEN "Medium"
    ELSE "Low"

\* external_agent.py:348-385
_normalize_news_item(news) ==
    LET title      == Get(news, "title", <<>>)
        event_type == NewsEventType(title)
    IN  Entity("external_event", Get(news, "url", title),
               [title          |-> title,
                event_type     |-> event_type,
                description    |-> title,
                source         |-> Get(news, "source", "News"),
                url            |-> Get(news, "url", ""),
                published_date |-> Get(news, "published_date", ""),
                significance   |-> NewsSignificance(event_type),
                timestamp      |-> isoformat(Get(news, "timestamp",
                                                 Datetime(0, TRUE)))])

\* external_agent.py:292-309, the entities of the items up to item n
RECURSIVE NormalizeUpTo(_, _)
NormalizeUpTo(raw_data, n) ==
    IF n = 0 THEN <<>>
    ELSE LET item      == raw_data[n]
             item_type == Get(item, "type", NoneVal)
             before    == NormalizeUpTo(raw_data, n - 1)
         IN  IF item_type = "sec_filing"
             THEN Append(before, _normalize_sec_filing(item))
             ELSE IF item_type = "news"
             THEN Append(before, _normalize_news_item(item))
             ELSE before

normalize(raw_data) == NormalizeUpTo(raw_data, Len(raw_data))

InitExternal ==
    /\ DetectIdle
    /\ AlertIdle
    /\ ActIdle
    /\ McpIdle
    /\ DigestIdle
    /\ ext_raw_data \in ListsUpTo(RawItems, MaxRawItems)
    /\ ext_entities = <<>>
    /\ ext_changes = <<>>
    /\ ext_pc = "fetched"

\* external_agent.py:78, ingest normalizes the items it fetched
Normalize ==
    /\ ext_pc = "fetched"
    /\ ext_entities' = normalize(ext_raw_data)
    /\ ext_pc' = "normalized"
    /\ UNCHANGED <<ext_raw_data, ext_changes>>
    /\ UNCHANGED <<detect_vars, am_vars, act_vars, mcp_vars, dg_vars>>

\* change_detector.py:37-94, the detector compares the entities with an
\* empty previous state: every entity is an addition
DetectExternalAdded ==
    /\ ext_pc = "normalized"
    /\ ext_changes' = detect_changes(ext_entities, <<>>)
    /\ ext_pc' = "detected"
    /\ UNCHANGED <<ext_raw_data, ext_entities>>
    /\ UNCHANGED <<detect_vars, am_vars, act_vars, mcp_vars, dg_vars>>

NextExternal == Normalize \/ DetectExternalAdded

SpecExternal == InitExternal /\ [][NextExternal]_vars

\* the entity id normalize gives to a raw item
C26_EntityIdOf(item) ==
    IF item.type = "sec_filing" THEN item.accession_number ELSE item.url

\* the modifier the categories of the scoring rules give to a raw item
C26_ExpectedModifier(item) ==
    IF item.type = "sec_filing"
    THEN IF item.form_type = "8-K" THEN 35
         ELSE IF item.form_type \in {"10-K", "10-Q"} THEN 15 ELSE 0
    ELSE IF NewsSignificance(NewsEventType(item.title)) = "High" THEN 40
         ELSE 0

C26_Scored(item) ==
    /\ item.type \in {"sec_filing", "news"}
    /\ \/ item.type = "news" /\ C26_ExpectedModifier(item) = 40
       \/ item.type = "sec_filing" /\ item.form_type \in {"8-K", "10-K", "10-Q"}

\* C26: the event categories normalize emits are those the detector scores.
\* The added external_event of an 8-K filing scores 40 + 15 + 35, that of a
\* 10-K or 10-Q filing 40 + 15 + 15, and that of a news item normalize
\* classified as M&A or as an executive change 40 + 15 + 40.
C26_CategoriesMatch ==
    ext_pc = "detected" =>
        \A i \in 1..Len(ext_raw_data) :
            LET item == ext_raw_data[i]
            IN  C26_Scored(item) =>
                    \E k \in 1..Len(ext_changes) :
                        /\ ext_changes[k].entity_type = "external_event"
                        /\ ext_changes[k].entity_id = C26_EntityIdOf(item)
                        /\ ext_changes[k].change_type = "added"
                        /\ ext_changes[k].significance_score =
                              40 + 15 + C26_ExpectedModifier(item)

----------------------------------------------------------------------------
(* DigestGenerator (src/digest_generator.py): the section generators       *)
(* applied to the changes and external events of one week.  The strs that  *)
(* are searched or sliced are sequences of characters.                     *)

\* the changes of a week as _get_weekly_changes returns them, highest score
\* first: lists of 0..MaxDigestChanges rows
MaxDigestChanges == 6

\* the changes of a week in any order, as a direct caller of the generators
\* may pass them: lists of 0..MaxUnsorted rows
MaxUnsorted == 4

\* models.py:94-128, a row of detected_changes as the generators read it
DigestChange(entity_type, change_type, field_changed, previous_value, new_value, score, rationale) ==
    [entity_type        |-> entity_type,
     change_type        |-> change_type,
     field_changed      |-> field_changed,
     previous_value     |-> previous_value,
     new_value          |-> new_value,
     significance_score |-> score,
     significance_level |-> Categorize(score),
     rationale          |-> rationale]

RiskAdded ==
    DigestChange("risk", "added", NoneVal, None,
                 Some([severity    |-> <<"C", "r", "i", "t", "i", "c", "a", "l">>,
                       description |-> <<"V", "e", "n", "d", "o", "r", " ", "o", "u", "t", "a", "g", "e">>]),
                 90, Some(<<"N", "e", "w", " ", "C", "r", "i", "t", "i", "c", "a", "l", " ", "r", "i", "s", "k", " ", "m", "a", "y", " ", "d", "e", "l", "a", "y", " ", "d", "e", "l", "i", "v", "e", "r", "y">>))

StakeholderAdded ==
    DigestChange("stakeholder", "added", NoneVal, None,
                 Some([name |-> <<"A", "n", "n", " ", "L", "e", "e">>, role |-> <<"C", "E", "O">>]),
                 90, Some(<<"M", "a", "y", " ", "r", "e", "s", "e", "t", " ", "t", "h", "e", " ", "r", "e", "l", "a", "t", "i", "o", "n", "s", "h", "i", "p">>))

ProgramBlocked ==
    DigestChange("program", "modified", "status",
                 Some([status |-> <<"O", "n", " ", "T", "r", "a", "c", "k">>]), Some([status |-> <<"B", "l", "o", "c", "k", "e", "d">>]),
                 65, None)

ProgramCompleted ==
    DigestChange("program", "modified", "status",
                 Some([status |-> <<"O", "n", " ", "T", "r", "a", "c", "k">>]), Some([status |-> <<"C", "o", "m", "p", "l", "e", "t", "e", "d">>]),
                 35, Some(<<"S", "t", "a", "t", "u", "s", " ", "c", "h", "a", "n", "g", "e", "d">>))

RiskRemoved ==
    DigestChange("risk", "removed", NoneVal,
                 Some([severity |-> <<"H", "i", "g", "h">>, description |-> <<"A", "u", "d", "i", "t", " ", "g", "a", "p">>]), None,
                 55, Some(<<"R", "i", "s", "k", " ", "c", "l", "o", "s", "e", "d", ";", " ", "m", "a", "y", " ", "r", "e", "o", "p", "e", "n", ",", " ", "m", "a", "y", " ", "n", "o", "t">>))

DigestChangeKinds ==
    {RiskAdded, StakeholderAdded, ProgramBlocked, ProgramCompleted, RiskRemoved}

\* digest_generator.py:85-89, ORDER BY significance_score DESC
SortedByScore(rows) ==
    \A i, j \in 1..Len(rows) :
        i < j => rows[i].significance_score >= rows[j].significance_score

DigestChangeLists ==
    {rows \in ListsUpTo(DigestChangeKinds, MaxDigestChanges) : SortedByScore(rows)}
    \cup ListsUpTo(DigestChangeKinds, MaxUnsorted)

\* models.py:66-91, a row of entity_snapshots of an external event
EventSnapshot(event_type, title) ==
    [entity_type |-> "external_event",
     entity_data |-> [event_type |-> event_type, title |-> title]]

DigestEventLists ==
    {<<>>,
     <<EventSnapshot(<<"P", "a", "r", "t", "n", "e", "r", "s", "h", "i", "p", " ", "A", "n", "n", "o", "u", "n", "c", "e", "m", "e", "n", "t">>, <<"F", "I", "S", " ", "a", "n", "d", " ", "V", "i", "s", "a", " ", "p", "a", "r", "t", "n", "e", "r">>),
       EventSnapshot(<<"N", "e", "w", "s", " ", "A", "r", "t", "i", "c", "l", "e">>, <<"F", "I", "S", " ", "o", "p", "e", "n", "s", " ", "o", "f", "f", "i", "c", "e">>)>>,
     <<EventSnapshot(<<"P", "a", "r", "t", "n", "e", "r", "s", "h", "i", "p", " ", "A", "n", "n", "o", "u", "n", "c", "e", "m", "e", "n", "t">>, <<"F", "I", "S", " ", "a", "n", "d", " ", "V", "i", "s", "a", " ", "p", "a", "r", "t", "n", "e", "r">>),
       EventSnapshot(<<"M", "&", "A", " ", "A", "c", "t", "i", "v", "i", "t", "y">>, <<"F", "I", "S", " ", "a", "c", "q", "u", "i", "r", "e", "s", " ", "W", "o", "r", "l", "d", "p", "a", "y", " ", "s", "t", "a", "k", "e">>),
       EventSnapshot(<<"N", "e", "w", "s", " ", "A", "r", "t", "i", "c", "l", "e">>, <<"F", "I", "S", " ", "o", "p", "e", "n", "s", " ", "o", "f", "f", "i", "c", "e">>),
       EventSnapshot(<<"P", "a", "r", "t", "n", "e", "r", "s", "h", "i", "p", " ", "A", "n", "n", "o", "u", "n", "c", "e", "m", "e", "n", "t">>, <<"F", "I", "S", " ", "a", "n", "d", " ", "V", "i", "s", "a", " ", "p", "a", "r", "t", "n", "e", "r">>),
       EventSnapshot(<<"M", "&", "A", " ", "A", "c", "t", "i", "v", "i", "t", "y">>, <<"C", "E", "O", " ", "o", "n", " ", "t", "h", "e", " ", "m", "e", "r", "g", "e", "r">>)>>}

\* the characters of the keys of the JSON values
KeyChars(k) ==
    CASE k = "name"        -> <<"n", "a", "m", "e">>
      [] k = "role"        -> <<"r", "o", "l", "e">>
      [] k = "status"      -> <<"s", "t", "a", "t", "u", "s">>
      [] k = "severity"    -> <<"s", "e", "v", "e", "r", "i", "t", "y">>
      [] k = "description" -> <<"d", "e", "s", "c", "r", "i", "p", "t", "i", "o", "n">>

\* the order of the keys in a JSON value
DigestFieldOrder == <<"name", "role", "status", "severity", "description">>

\* repr of the items of a dict from key n of DigestFieldOrder on; sep is
\* what precedes the next item
RECURSIVE ItemsStr(_, _, _)
ItemsStr(d, n, sep) ==
    IF n > Len(DigestFieldOrder) THEN <<>>
    ELSE LET k == DigestFieldOrder[n]
         IN  IF k \in DOMAIN d
             THEN sep \o <<"'">> \o KeyChars(k) \o <<"'", ":", " ", "'">> \o d[k] \o <<"'">>
                  \o ItemsStr(d, n + 1, <<",", " ">>)
             ELSE ItemsStr(d, n + 1, sep)

\* str(value) of an Optional[dict]
Str(value) ==
    IF value = None THEN <<"N", "o", "n", "e">>
    ELSE <<"{">> \o ItemsStr(value.value, 1, <<>>) \o <<"}">>

\* word in str(value).lower()
InStrLower(word, value) == Contains(word, Lower(Str(value)))

\* text[:n]
Prefix(text, n) == SubSeq(text, 1, IF Len(text) < n THEN Len(text) ELSE n)

\* an f-string: its text with the names of the interpolated values, and the
\* values
FString(format, args) == [format |-> format, args |-> args]

\* faulty variant: five HIGH changes do not make the account Yellow
AccountStatus_CriticalOnly(critical_count, high_count) ==
    IF critical_count >= 3 THEN "Red"
    ELSE IF critical_count >= 1 THEN "Yellow"
    ELSE "Green"

\* digest_generator.py:116-125
AccountStatus(critical_count, high_count) ==
    IF critical_count >= 3 THEN "Red"
    ELSE IF critical_count >= 1 \/ high_count >= 5 THEN "Yellow"
    ELSE "Green"

CountOf(rows, Test(_)) == Cardinality({i \in 1..Len(rows) : Test(rows[i])})

\* digest_generator.py:129-134
IsNegativeChange(c) ==
    \/ c.change_type = "removed"
    \/ c.entity_type = "risk" /\ c.change_type = "added"
    \/ c.entity_type = "program" /\ InStrLower(<<"b", "l", "o", "c", "k", "e", "d">>, c.new_value)

\* digest_generator.py:135-139
IsPositiveChange(c) ==
    \/ c.change_type = "added" /\ c.entity_type # "risk"
    \/ c.entity_type = "program" /\ InStrLower(<<"c", "o", "m", "p", "l", "e", "t", "e", "d">>, c.new_value)

\* digest_generator.py:141-146
Momentum(negative_changes, positive_changes) ==
    IF negative_changes > positive_changes + 2 THEN "Deteriorating"
    ELSE IF positive_changes > negative_changes + 2 THEN "Improving"
    ELSE "Flat"

IsCritical(c) == c.significance_level = "CRITICAL"

IsHigh(c) == c.significance_level = "HIGH"

\* digest_generator.py:108-162
_generate_account_snapshot(rows) ==
    LET critical_count == CountOf(rows, IsCritical)
        high_count     == CountOf(rows, IsHigh)
        status         == AccountStatus(critical_count, high_count)
        momentum       == Momentum(CountOf(rows, IsNegativeChange),
                                   CountOf(rows, IsPositiveChange))
        summary ==
            IF Len(rows) = 0
            THEN FString("No material changes detected this week; account remains stable.", <<>>)
            ELSE IF status = "Red"
            THEN FString("Multiple critical issues requiring immediate attention; {critical_count} critical changes detected.",
                         <<critical_count>>)
            ELSE IF status = "Yellow"
            THEN FString("Account showing some concerning signals; monitoring {critical_count + high_count} high-priority changes.",
                         <<critical_count + high_count>>)
            ELSE FString("Account progressing normally with routine updates.", <<>>)
    IN  [status |-> status, momentum |-> momentum, summary |-> summary]

\* str.replace("_", " ").title() of the entity types
EntityTypeTitle(entity_type) ==
    CASE entity_type = "stakeholder"    -> "Stakeholder"
      [] entity_type = "program"        -> "Program"
      [] entity_type = "risk"           -> "Risk"
      [] entity_type = "timeline"       -> "Timeline"
      [] entity_type = "governance"     -> "Governance"
      [] entity_type = "external_event" -> "External Event"

\* digest_generator.py:187-223
_summarize_change(change) ==
    LET either   == OrOrEmpty(change.new_value, change.previous_value)
        new      == OrEmpty(change.new_value)
        fallback == FString("{entity_type} {change.change_type}",
                            <<EntityTypeTitle(change.entity_type),
                              change.change_type>>)
    IN  IF change.entity_type = "stakeholder"
        THEN LET name == Get(either, "name", <<"U", "n", "k", "n", "o", "w", "n">>)
                 role == Get(either, "role", <<"U", "n", "k", "n", "o", "w", "n">>)
             IN  IF change.change_type = "added"
                 THEN FString("New {role} added: {name}", <<role, name>>)
                 ELSE IF change.change_type = "removed"
                 THEN FString("{role} departed: {name}", <<role, name>>)
                 ELSE IF change.field_changed = "role"
                 THEN FString("{name} role changed to {role}",
                              <<name, Get(new, "role", <<"U", "n", "k", "n", "o", "w", "n">>)>>)
                 ELSE fallback
        ELSE IF change.entity_type = "program"
        THEN LET name == Get(either, "name", <<"U", "n", "k", "n", "o", "w", "n">>)
             IN  IF change.field_changed = "status"
                 THEN FString("{name} status: {old_status} -> {new_status}",
                              <<name,
                                Get(OrEmpty(change.previous_value), "status",
                                    <<"U", "n", "k", "n", "o", "w", "n">>),
                                Get(new, "status", <<"U", "n", "k", "n", "o", "w", "n">>)>>)
                 ELSE fallback
        ELSE IF change.entity_type = "risk"
        THEN LET severity == Get(either, "severity", <<"U", "n", "k", "n", "o", "w", "n">>)
                 desc     == Prefix(Get(either, "description", <<"U", "n", "k", "n", "o", "w", "n">>), 50)
             IN  IF change.change_type = "added"
                 THEN FString("New {severity} risk: {desc}", <<severity, desc>>)
                 ELSE fallback
        ELSE IF change.entity_type = "external_event"
        THEN FString("{event_type}: {title}",
                     <<Get(new, "event_type", <<"U", "n", "k", "n", "o", "w", "n">>),
                       Get(new, "title", <<"U", "n", "k", "n", "o", "w", "n">>)>>)
        ELSE fallback

\* the numbers of a set, smallest first
RECURSIVE Increasing(_)
Increasing(numbers) ==
    IF numbers = {} THEN <<>>
    ELSE LET least == CHOOSE x \in numbers : \A y \in numbers : x <= y
         IN  <<least>> \o Increasing(numbers \ {least})

\* [c for c in rows if Test(c)], as the positions of these rows
Filter(rows, Test(_)) == Increasing({i \in 1..Len(rows) : Test(rows[i])})

\* an entry of a section and the position in changes of the row it is made
\* from; the position is not part of the value the code returns
From(position, entry) == [source |-> position, entry |-> entry]

IsMaterial(c) == c.significance_level \in {"CRITICAL", "HIGH"}

\* digest_generator.py:164-185; _summarize_change never returns an empty str
_generate_what_changed(rows) ==
    LET material_changes == Prefix(Filter(rows, IsMaterial), 5)
    IN  [k \in 1..Len(material_changes) |->
            From(material_changes[k], _summarize_change(rows[material_changes[k]]))]

\* digest_generator.py:233-238
IsRiskChange(c) ==
    \/ c.entity_type = "risk"
    \/ c.entity_type = "program" /\ InStrLower(<<"b", "l", "o", "c", "k", "e", "d">>, c.new_value)
    \/ c.significance_level = "CRITICAL"

\* sorted(..., key=significance_score, reverse=True) of the rows at the
\* positions: the sort is stable
RECURSIVE SortedByScoreDesc(_, _)
SortedByScoreDesc(rows, positions) ==
    IF positions = <<>> THEN <<>>
    ELSE LET first == CHOOSE k \in 1..Len(positions) :
                         /\ \A m \in 1..Len(positions) :
                               rows[positions[k]].significance_score
                                  >= rows[positions[m]].significance_score
                         /\ \A m \in 1..(k - 1) :
                               rows[positions[m]].significance_score
                                  < rows[positions[k]].significance_score
             rest  == [m \in 1..(Len(positions) - 1) |->
                          IF m < first THEN positions[m] ELSE positions[m + 1]]
         IN  <<positions[first]>> \o SortedByScoreDesc(rows, rest)

\* text.lower()-free search: the first position >= from where word starts in
\* text, 0 if there is none
FirstIndex(word, text, from) ==
    LET starts == {i \in from..(Len(text) - Len(word) + 1) :
                      \A j \in 1..Len(word) : text[i + j - 1] = word[j]}
    IN  IF starts = {} THEN 0
        ELSE CHOOSE i \in starts : \A k \in starts : i <= k

\* str.strip() of blanks
RECURSIVE Strip(_)
Strip(text) ==
    IF text = <<>> THEN text
    ELSE IF Head(text) = " " THEN Strip(Tail(text))
    ELSE IF text[Len(text)] = " " THEN Strip(SubSeq(text, 1, Len(text) - 1))
    ELSE text

\* text.split(word)[1], for a text that holds word
SecondPart(text, word) ==
    LET i    == FirstIndex(word, text, 1)
        next == FirstIndex(word, text, i + Len(word))
    IN  SubSeq(text, i + Len(word),
               IF next = 0 THEN Len(text) ELSE next - 1)

\* digest_generator.py:254-265
_extract_why_matters(change) ==
    LET rationale == IF change.rationale = None \/ change.rationale.value = <<>>
                     THEN <<"I", "m", "p", "a", "c", "t", " ", "u", "n", "c", "l", "e", "a", "r">> ELSE change.rationale.value
    IN  IF /\ Contains(<<"m", "a", "y">>, Lower(rationale))
           /\ FirstIndex(<<"m", "a", "y">>, rationale, 1) # 0
        THEN <<"M", "a", "y">> \o Strip(SecondPart(rationale, <<"m", "a", "y">>))
        ELSE <<"R", "e", "q", "u", "i", "r", "e", "s", " ", "a", "t", "t", "e", "n", "t", "i", "o", "n", " ", "d", "u", "e", " ", "t", "o", " ", "p", "o", "t", "e", "n", "t", "i", "a", "l", " ", "p", "r", "o", "g", "r", "a", "m", " ", "i", "m", "p", "a", "c", "t", ".">>

\* digest_generator.py:267-290
_predict_outcome(change) ==
    LET new     == OrEmpty(change.new_value)
        default == "Impact assessment ongoing."
    IN  IF change.entity_type = "risk"
        THEN LET severity == Get(new, "severity", <<"U", "n", "k", "n", "o", "w", "n">>)
             IN  IF severity = <<"C", "r", "i", "t", "i", "c", "a", "l">>
                 THEN "Program delay or failure if unresolved within 48 hours."
                 ELSE IF severity = <<"H", "i", "g", "h">>
                 THEN "Timeline slippage likely within next sprint."
                 ELSE "Minor impact if addressed within 2 weeks."
        ELSE IF change.entity_type = "program"
        THEN LET status == Lower(Get(new, "status", <<>>))
             IN  IF Contains(<<"b", "l", "o", "c", "k", "e", "d">>, status)
                 THEN "Milestone delay and potential budget overrun."
                 ELSE IF Contains(<<"a", "t", " ", "r", "i", "s", "k">>, status)
                 THEN "Requires intervention to prevent escalation."
                 ELSE default
        ELSE IF change.entity_type = "stakeholder"
        THEN LET role == Lower(Get(OrOrEmpty(change.new_value,
                                             change.previous_value),
                                   "role", <<>>))
             IN  IF Contains(<<"c", "e", "o">>, role) \/ Contains(<<"c", "f", "o">>, role)
                 THEN "Strategic direction may shift; relationship reset needed."
                 ELSE default
        ELSE default

\* faulty variant: the three risks are taken before the sort
TopRisks_CutBeforeSort(rows, positions) ==
    SortedByScoreDesc(rows, Prefix(positions, 3))

\* digest_generator.py:240-241
TopRisks(rows, positions) == Prefix(SortedByScoreDesc(rows, positions), 3)

\* digest_generator.py:225-252
_generate_key_risks(rows) ==
    LET risk_changes == TopRisks(rows, Filter(rows, IsRiskChange))
    IN  [k \in 1..Len(risk_changes) |->
            LET change == rows[risk_changes[k]]
            IN  From(risk_changes[k],
                     [description |-> _summarize_change(change),
                      why_matters |-> _extract_why_matters(change),
                      outcome     |-> _predict_outcome(change)])]

\* digest_generator.py:306-321, the opportunities of the events up to event n
RECURSIVE EventOpportunities(_, _)
EventOpportunities(events, n) ==
    IF n = 0 THEN <<>>
    ELSE LET event_data == events[n].entity_data
             event_type == Lower(Get(event_data, "event_type", <<>>))
             title      == Get(event_data, "title", <<>>)
             before     == EventOpportunities(events, n - 1)
         IN  IF Contains(<<"p", "a", "r", "t", "n", "e", "r", "s", "h", "i", "p">>, event_type)
             THEN Append(before,
                         [description |-> FString("Leverage FIS partnership: {title[:50]}",
                                                  <<Prefix(title, 50)>>),
                          rationale   |-> "Potential to expand collaboration scope."])
             ELSE IF Contains(<<"m", "&", "a">>, event_type)
             THEN Append(before,
                         [description |-> FString("M&A activity: {title[:50]}",
                                                  <<Prefix(title, 50)>>),
                          rationale   |-> "New leadership may accelerate AI adoption."])
             ELSE before

\* digest_generator.py:324-330, the opportunities of the changes up to row n
RECURSIVE ChangeOpportunities(_, _)
ChangeOpportunities(rows, n) ==
    IF n = 0 THEN <<>>
    ELSE LET change == rows[n]
             before == ChangeOpportunities(rows, n - 1)
         IN  IF /\ change.entity_type = "program"
                /\ InStrLower(<<"c", "o", "m", "p", "l", "e", "t", "e", "d">>, change.new_value)
             THEN Append(before,
                         [description |-> FString("Expand {program_name} scope",
                                                  <<Get(OrEmpty(change.new_value),
                                                        "name", <<"U", "n", "k", "n", "o", "w", "n">>)>>),
                          rationale   |-> "Successful delivery builds trust for next phase."])
             ELSE before

\* digest_generator.py:292-333
_generate_opportunities(events, rows) ==
    Prefix(EventOpportunities(Prefix(events, 10), Len(Prefix(events, 10)))
           \o ChangeOpportunities(rows, Len(rows)),
           3)

ExecRoles == {<<"C", "E", "O">>, <<"C", "F", "O">>, <<"C", "T", "O">>, <<"E", "x", "e", "c", "u", "t", "i", "v", "e">>}

\* digest_generator.py:348-374, the decision a CRITICAL change asks for: a
\* list of one decision or of none
DecisionFor(change) ==
    LET new == OrEmpty(change.new_value)
    IN  IF change.entity_type = "stakeholder"
        THEN LET role == Get(OrOrEmpty(change.new_value, change.previous_value),
                             "role", <<"U", "n", "k", "n", "o", "w", "n">>)
             IN  IF AnyWordIn(ExecRoles, role)
                 THEN <<[action   |-> FString("Schedule intro with new {role}",
                                              <<role>>),
                         due_date |-> "Within 2 weeks",
                         owner    |-> "Account Lead"]>>
                 ELSE <<>>
        ELSE IF change.entity_type = "program"
        THEN IF Contains(<<"b", "l", "o", "c", "k", "e", "d">>, Lower(Get(new, "status", <<>>)))
             THEN <<[action   |-> FString("Unblock {program_name} - escalate internally",
                                          <<Get(new, "name", <<"U", "n", "k", "n", "o", "w", "n">>)>>),
                     due_date |-> "This week",
                     owner    |-> "Delivery Lead"]>>
             ELSE <<>>
        ELSE IF change.entity_type = "risk"
        THEN IF Get(new, "severity", <<>>) = <<"C", "r", "i", "t", "i", "c", "a", "l">>
             THEN <<[action   |-> FString("Review critical risk mitigation plan",
                                          <<>>),
                     due_date |-> "Immediate",
                     owner    |-> "Exec Sponsor"]>>
             ELSE <<>>
        ELSE <<>>

\* digest_generator.py:335-376
_generate_decisions_needed(rows) ==
    LET critical_changes == Prefix(Filter(rows, IsCritical), 3)
    IN  Flatten([k \in 1..Len(critical_changes) |->
                    LET found == DecisionFor(rows[critical_changes[k]])
                    IN  [m \in 1..Len(found) |->
                            From(critical_changes[k], found[m])]])

EmptySections ==
    [account_snapshot |-> None,
     what_changed     |-> <<>>,
     key_risks        |-> <<>>,
     opportunities    |-> <<>>,
     decisions_needed |-> <<>>]

InitDigest ==
    /\ DetectIdle
    /\ AlertIdle
    /\ ActIdle
    /\ McpIdle
    /\ ExternalIdle
    /\ dg_changes \in DigestChangeLists
    /\ dg_events \in DigestEventLists
    /\ dg_sections = EmptySections
    /\ dg_pc = "start"

\* a generator ran: its section is set and the next generator is due
SectionGenerated(from, section, value, to) ==
    /\ dg_pc = from
    /\ dg_sections' = [dg_sections EXCEPT ![section] = value]
    /\ dg_pc' = to
    /\ UNCHANGED <<dg_changes, dg_events>>
    /\ UNCHANGED <<detect_vars, am_vars, act_vars, mcp_vars, ext_vars>>

\* digest_generator.py:52
GenerateAccountSnapshot ==
    SectionGenerated("start", "account_snapshot",
                     Some(_generate_account_snapshot(dg_changes)), "snapshot")

\* digest_generator.py:53
GenerateWhatChanged ==
    SectionGenerated("snapshot", "what_changed",
                     _generate_what_changed(dg_changes), "what_changed")

\* digest_generator.py:54
GenerateKeyRisks ==
    SectionGenerated("what_changed", "key_risks",
                     _generate_key_risks(dg_changes), "key_risks")

\* digest_generator.py:55
GenerateOpportunities ==
    SectionGenerated("key_risks", "opportunities",
                     _generate_opportunities(dg_events, dg_changes),
                     "opportunities")

\* digest_generator.py:56
GenerateDecisionsNeeded ==
    SectionGenerated("opportunities", "decisions_needed",
                     _generate_decisions_needed(dg_changes), "generated")

NextDigest ==
    \/ GenerateAccountSnapshot
    \/ GenerateWhatChanged
    \/ GenerateKeyRisks
    \/ GenerateOpportunities
    \/ GenerateDecisionsNeeded

SpecDigest == InitDigest /\ [][NextDigest]_vars

----------------------------------------------------------------------------
(* Properties of the digest sections *)

\* the number of changes of the week with this significance level
C22_Count(level) ==
    Cardinality({i \in 1..Len(dg_changes) :
                    dg_changes[i].significance_level = level})

\* C22: the account status follows from the numbers of CRITICAL and HIGH
\* changes alone: Red iff at least 3 CRITICAL; otherwise Yellow iff at least
\* 1 CRITICAL or at least 5 HIGH; otherwise Green, so that an empty week is
\* Green.  The status is Green, Yellow or Red and the momentum Improving,
\* Flat or Deteriorating.
C22_StatusFromCounts ==
    dg_pc \notin {"idle", "start"} =>
        LET snapshot == dg_sections.account_snapshot.value
            critical == C22_Count("CRITICAL")
            high     == C22_Count("HIGH")
        IN  /\ snapshot.status = "Red" <=> critical >= 3
            /\ snapshot.status = "Yellow"
                  <=> (critical < 3 /\ (critical >= 1 \/ high >= 5))
            /\ snapshot.status = "Green" <=> (critical = 0 /\ high < 5)
            /\ dg_changes = <<>> => snapshot.status = "Green"
            /\ snapshot.status \in {"Green", "Yellow", "Red"}
            /\ snapshot.momentum \in {"Improving", "Flat", "Deteriorating"}

\* a week of five HIGH changes and no CRITICAL one is Yellow
C22_Witness ==
    /\ dg_pc = "generated"
    /\ C22_Count("CRITICAL") = 0
    /\ C22_Count("HIGH") = 5
    /\ dg_sections.account_snapshot.value.status = "Yellow"

\* the rows the entries of a section are made from
C23_SourcesOf(section) == {section[k].source : k \in 1..Len(section)}

C23_ScoreOf(position) == dg_changes[position].significance_score

C23_LevelOf(position) == dg_changes[position].significance_level

\* the positions of the changes that may be listed as key risks
C23_Eligible == {i \in 1..Len(dg_changes) : IsRiskChange(dg_changes[i])}

\* C23: the sections are bounded and selective.  'What changed' has at most
\* 5 entries, all of CRITICAL or HIGH changes; 'key risks' has at most 3
\* entries, of distinct eligible changes, in non-increasing score order, and
\* no eligible change left out scores more than a listed one (none is left
\* out when fewer than 3 are listed); 'opportunities' has at most 3 entries;
\* 'actions needed' has at most 3 entries, all of CRITICAL changes.
C23_SectionsBounded ==
    dg_pc = "generated" =>
        LET what_changed == dg_sections.what_changed
            key_risks    == dg_sections.key_risks
            decisions    == dg_sections.decisions_needed
        IN  /\ Len(what_changed) <= 5
            /\ \A i \in C23_SourcesOf(what_changed) :
                  C23_LevelOf(i) \in {"CRITICAL", "HIGH"}
            /\ Len(key_risks) <= 3
            /\ Cardinality(C23_SourcesOf(key_risks)) = Len(key_risks)
            /\ C23_SourcesOf(key_risks) \subseteq C23_Eligible
            /\ \A k \in 1..(Len(key_risks) - 1) :
                  C23_ScoreOf(key_risks[k].source)
                     >= C23_ScoreOf(key_risks[k + 1].source)
            /\ \A j \in C23_Eligible \ C23_SourcesOf(key_risks) :
                  /\ Len(key_risks) = 3
                  /\ \A i \in C23_SourcesOf(key_risks) :
                        C23_ScoreOf(j) <= C23_ScoreOf(i)
            /\ Len(dg_sections.opportunities) <= 3
            /\ Len(decisions) <= 3
            /\ \A i \in C23_SourcesOf(decisions) : C23_LevelOf(i) = "CRITICAL"

\* a week with more material changes, more eligible risks, more opportunities
\* and more CRITICAL changes than the sections hold
C23_Witness ==
    /\ dg_pc = "generated"
    /\ C22_Count("CRITICAL") + C22_Count("HIGH") > 5
    /\ Len(dg_sections.what_changed) = 5
    /\ Cardinality(C23_Eligible) > 3
    /\ Len(dg_sections.key_risks) = 3
    /\ Len(dg_events) > 3
    /\ Len(dg_sections.opportunities) = 3
    /\ C22_Count("CRITICAL") > 3
    /\ Len(dg_sections.decisions_needed) = 3

----------------------------------------------------------------------------
(* process_changes called again, later, for the changes of an earlier call *)

\* the hours after which the second call is made: within the window of an
\* alert sent an hour before the first call, and after it
LaterHours == {1, DedupWindowHours}

\* one call with the default threshold and at most one earlier alert
InitLater ==
    /\ InitAlert
    /\ significance_threshold = DefaultThreshold
    /\ Len(alert_history) <= 1

\* an entry of the history seen hours later: timestamps are relative to now
Aged(entry, hours) ==
    IF entry.alert_timestamp = None THEN entry
    ELSE [entry EXCEPT !.alert_timestamp.hour = @ - hours]

\* activities.py:407-436, 466: a change process_changes returned no alert for
\* keeps alert_sent false, so the next pass, hours later, hands the changes
\* and the history to process_changes again
CallAgainLater(hours) ==
    /\ am_pc = "returned"
    /\ am_elapsed = 0
    /\ am_elapsed' = hours
    /\ alert_history' = [i \in 1..Len(alert_history) |->
                            Aged(alert_history[i], hours)]
    /\ am_index' = 1
    /\ alerts_sent' = <<>>
    /\ am_pc' = "loop"
    /\ UNCHANGED <<am_changes, significance_threshold, slack_messages,
                   send_failed>>
    /\ UNCHANGED <<detect_vars, act_vars, side_vars>>

NextLater ==
    \/ Next
    \/ \E hours \in LaterHours : CallAgainLater(hours)

SpecLater == InitLater /\ [][NextLater]_vars

\* the history as the first call saw it
C29_FirstHistory ==
    [i \in 1..Len(alert_history) |-> Aged(alert_history[i], 0 - am_elapsed)]

\* the first call skipped c as a duplicate within the window of an earlier
\* alert for its triple
C29_SuppressedBefore(c) ==
    /\ c.significance_score >= significance_threshold
    /\ ~KnownChangeId(c)
    /\ \E i \in 1..Len(C29_FirstHistory) :
          LET h == C29_FirstHistory[i]
          IN  /\ SameTriple(h, c)
              /\ h.alert_timestamp # None
              /\ h.alert_timestamp.hour > 0 - DedupWindowHours

====
